---- MODULE Spec2Model ----
(***************************************************************************)
(* State-machine model of the UAV edge simulation (src/client):            *)
(*   - drone/drone.py      the per-agent task execution state machine      *)
(*   - world/zones.py, world/map2d.py   the zone trigger engine            *)
(*   - edge_server.py      the background loop of the runtime              *)
(*                                                                         *)
(* Numbers are integers in model units: one length unit, one time unit and *)
(* one battery unit stand for a fixed amount of metres, seconds and        *)
(* percent.  Floating-point values of the source that are constructor or   *)
(* call arguments (configuration, task fields, dt) are drawn from small     *)
(* sets.                                                                   *)
(***************************************************************************)
EXTENDS Integers, Sequences, FiniteSets, TLC

VARIABLES
    drones,        \* EdgeRuntime.drones / the Drone objects: id -> Drone fields
    ts,            \* simulated time (EdgeRuntime.ts, the harness clock)
    dt,            \* the step length every tick is called with (EdgeRuntime.dt)
    world_bounds,  \* the world_bounds argument every tick is called with
    zones,         \* Map2D.zones: sequence of Zone records
    drone_in_zones,\* Map2D._drone_in_zones
    last_fired,    \* Map2D._last_fired: <<drone_id, zone_id>> -> ts or None
    loop,          \* state of the background thread running EdgeRuntime._loop
    stop_flag,     \* EdgeRuntime._stop (threading.Event)
    events,        \* EdgeRuntime.events: deque(maxlen=200) of event records
    obs,           \* observation of the last Drone call: what was called and returned
    wobs,          \* observation of the last World.update: its input and its events
    lock,          \* EdgeRuntime.lock: the thread that holds it, or "none"
    pc             \* the caller threads of the runtime: thread -> position and locals

vars == <<drones, ts, dt, world_bounds, zones, drone_in_zones, last_fired,
          loop, stop_flag, events, obs, wobs, lock, pc>>

----------------------------------------------------------------------------
(* Bounds of the model *)

\* The clock stops advancing here: no tick is started at ts >= MaxTs.
MaxTs == 6

\* No World.update is started at ts >= MaxWorldTs.
MaxWorldTs == 3

\* The callers of the runtime make at most MaxCalls assign_task calls in a run.
MaxCalls == 2

\* Python's None for an absent optional number (duration_s, speed_mps, last_fired_ts).
None == -1

----------------------------------------------------------------------------
(* drone/types.py *)

Vec2(x, y) == [x |-> x, y |-> y]

Vec2_sub(a, b) == Vec2(a.x - b.x, a.y - b.y)

Vec2_add(a, b) == Vec2(a.x + b.x, a.y + b.y)

\* Integer square root: the largest r with r*r <= n.
Isqrt(n) == CHOOSE r \in 0..n : r * r <= n /\ (r + 1) * (r + 1) > n

\* Vec2.norm, exact whenever the vector is axis-aligned, rounded down otherwise.
Vec2_norm(v) == Isqrt(v.x * v.x + v.y * v.y)

\* Division rounding towards zero (the sign of the direction is kept).
DivT(a, b) == IF a >= 0 THEN a \div b ELSE -((-a) \div b)

\* Vec2.normalized() * k as used by _move_towards: the zero vector stays zero.
Vec2_normalized_mul(v, k) ==
    LET n == Vec2_norm(v)
    IN  IF n = 0 THEN Vec2(0, 0) ELSE Vec2(DivT(v.x * k, n), DivT(v.y * k, n))

\* The members of the DroneStatus enum.
DroneStatus == {"IDLE", "NAVIGATING", "EXECUTING", "RETURNING", "OFFLINE", "FAILED"}

\* DroneEvent, reduced to the fields that identify it.
DroneEvent(type, drone_id, status, task_id) ==
    [type |-> type, drone_id |-> drone_id, status |-> status, task_id |-> task_id]

----------------------------------------------------------------------------
(* drone/tasks.py *)

TaskType == {"PATH", "GOTO", "ORBIT", "HOLD", "RETURN_HOME"}

\* task = None
NoTask == [type |-> "NONE", id |-> "None"]

\* An instance of the base dataclass Task: it has a type, and is an instance of
\* none of the five subclasses.
Task(id, type) == [type |-> type, id |-> id, speed_mps |-> None]

IsBaseTask(t) == DOMAIN t = {"type", "id", "speed_mps"}

PathTask(id, waypoints, loop_, arrive_eps) ==
    [type |-> "PATH", id |-> id, speed_mps |-> None, waypoints |-> waypoints,
     loop |-> loop_, cursor |-> 0, arrive_eps |-> arrive_eps]

GoToTask(id, target, arrive_eps) ==
    [type |-> "GOTO", id |-> id, speed_mps |-> None, target |-> target,
     arrive_eps |-> arrive_eps]

OrbitTask(id, center, radius, duration_s) ==
    [type |-> "ORBIT", id |-> id, speed_mps |-> None, center |-> center,
     radius |-> radius, duration_s |-> duration_s, elapsed_s |-> 0]

HoldTask(id, pos, duration_s, hold_eps) ==
    [type |-> "HOLD", id |-> id, speed_mps |-> None, pos |-> pos,
     duration_s |-> duration_s, elapsed_s |-> 0, hold_eps |-> hold_eps]

ReturnHomeTask(id, home, arrive_eps) ==
    [type |-> "RETURN_HOME", id |-> id, speed_mps |-> None, home |-> home,
     arrive_eps |-> arrive_eps]

----------------------------------------------------------------------------
(* drone/drone.py *)

Max(a, b) == IF a >= b THEN a ELSE b

Min(a, b) == IF a <= b THEN a ELSE b

_clamp(v, lo, hi) == Max(lo, Min(hi, v))

\* Returns (new_pos, arrived).  dist <= 1e-9 is dist = 0 on integers.
_move_towards(pos, target, max_step) ==
    LET delta == Vec2_sub(target, pos)
        dist  == Vec2_norm(delta)
    IN  IF dist <= max_step \/ dist <= 0
        THEN [pos |-> target, arrived |-> TRUE]
        ELSE [pos |-> Vec2_add(pos, Vec2_normalized_mul(delta, max_step)),
              arrived |-> FALSE]

DroneConfig(speed_mps, capacity, drain, low, period) ==
    [speed_mps |-> speed_mps, battery_capacity |-> capacity,
     battery_drain_per_s |-> drain, battery_low_threshold |-> low,
     heartbeat_period_s |-> period, investigate_orbit_points |-> 4]

\* The dataclass Drone: battery defaults to 100.0 (here: battery0), whatever
\* config.battery_capacity is.
Drone(id, pos, home, config, status, battery0) ==
    [id |-> id, pos |-> pos, home |-> home, config |-> config,
     status |-> status, battery |-> battery0, task |-> NoTask,
     last_heartbeat_ts |-> 0, last_seen_ts |-> 0, orbit_idx |-> 0]

\* self.task.id if self.task else None
TaskIdOf(d) == IF d.task = NoTask THEN "None" ELSE d.task.id

\* Mutant of _set_status: the event is emitted also when the status is unchanged.
_set_status_always(d, new_status, tsv) ==
    LET d1 == [d EXCEPT !.status = new_status]
    IN  [d |-> d1,
         events |-> <<DroneEvent("STATUS_CHANGED", d.id, new_status, TaskIdOf(d1))>>]

_set_status(d, new_status, tsv) ==
    IF new_status = d.status
    THEN [d |-> d, events |-> <<>>]
    ELSE LET d1 == [d EXCEPT !.status = new_status]
         IN  [d |-> d1,
              events |-> <<DroneEvent("STATUS_CHANGED", d.id, new_status, TaskIdOf(d1))>>]

\* The dict lookup of assign_task, with its default.
StatusForTask(type) ==
    CASE type = "PATH"        -> "NAVIGATING"
      [] type = "GOTO"        -> "NAVIGATING"
      [] type = "ORBIT"       -> "EXECUTING"
      [] type = "HOLD"        -> "EXECUTING"
      [] type = "RETURN_HOME" -> "RETURNING"
      [] OTHER                -> "IDLE"

Drone_assign_task(d, task, tsv) ==
    LET d1 == [d EXCEPT !.task = task]
        r  == _set_status(d1, StatusForTask(task.type), tsv)
    IN  [d |-> r.d,
         events |-> r.events \o
                    <<DroneEvent("TASK_ASSIGNED", d.id, r.d.status, task.id)>>]

Drone_set_offline(d, tsv) ==
    LET d1 == [d EXCEPT !.task = NoTask]
        r  == _set_status(d1, "OFFLINE", tsv)
    IN  [d |-> r.d,
         events |-> r.events \o <<DroneEvent("OFFLINE", d.id, r.d.status, "None")>>]

_effective_speed(d) ==
    IF d.task = NoTask \/ d.task.speed_mps = None
    THEN d.config.speed_mps
    ELSE Max(1, d.task.speed_mps)

\* A _complete_task that reads the task id after it has cleared the task.
_complete_task_id_after_clear(d, tsv) ==
    LET d1  == [d EXCEPT !.task = NoTask]
    IN  [d |-> d1,
         events |-> <<DroneEvent("TASK_COMPLETED", d.id, d1.status, TaskIdOf(d1))>>]

_complete_task(d, tsv) ==
    LET tid == TaskIdOf(d)
        d1  == [d EXCEPT !.task = NoTask]
    IN  [d |-> d1,
         events |-> <<DroneEvent("TASK_COMPLETED", d.id, d1.status, tid)>>]

\* cos and sin of 2*pi*k/4: the orbit of the model has orbit_n = 4 segments.
Cos4(k) == CASE k % 4 = 0 -> 1 [] k % 4 = 2 -> -1 [] OTHER -> 0

Sin4(k) == CASE k % 4 = 1 -> 1 [] k % 4 = 3 -> -1 [] OTHER -> 0

\* Mutant of DurationReached: the duration has to be exceeded.
DurationReached_strict(t) == t.duration_s # None /\ t.elapsed_s > t.duration_s

\* elapsed_s >= duration_s when a duration is set
DurationReached(t) == t.duration_s # None /\ t.elapsed_s >= t.duration_s

\* A path step that leaves the cursor past the end when a looping path ends.
step_path_no_wrap(d, max_step, tsv) ==
    LET t == d.task
    IN  IF Len(t.waypoints) = 0 THEN _complete_task(d, tsv)
        ELSE
        LET wp      == t.waypoints[IF t.cursor < Len(t.waypoints) THEN t.cursor + 1
                                   ELSE Len(t.waypoints)]
            near    == Vec2_norm(Vec2_sub(wp, d.pos)) <= t.arrive_eps
            mv      == IF near THEN [pos |-> wp, arrived |-> TRUE]
                       ELSE _move_towards(d.pos, wp, max_step)
            d1      == [d EXCEPT !.pos = mv.pos]
            cursor1 == t.cursor + 1
        IN  IF ~mv.arrived THEN [d |-> d1, events |-> <<>>]
            ELSE IF cursor1 >= Len(t.waypoints) /\ ~t.loop
            THEN _complete_task([d1 EXCEPT !.task.cursor = cursor1], tsv)
            ELSE [d |-> [d1 EXCEPT !.task.cursor = cursor1], events |-> <<>>]

step_path(d, max_step, tsv) ==
    LET t == d.task
    IN  IF Len(t.waypoints) = 0 THEN _complete_task(d, tsv)
        ELSE
        LET wp      == t.waypoints[t.cursor + 1]
            near    == Vec2_norm(Vec2_sub(wp, d.pos)) <= t.arrive_eps
            mv      == IF near THEN [pos |-> wp, arrived |-> TRUE]
                       ELSE _move_towards(d.pos, wp, max_step)
            d1      == [d EXCEPT !.pos = mv.pos]
            cursor1 == t.cursor + 1
        IN  IF ~mv.arrived THEN [d |-> d1, events |-> <<>>]
            ELSE IF cursor1 >= Len(t.waypoints)
            THEN IF t.loop
                 THEN [d |-> [d1 EXCEPT !.task.cursor = 0], events |-> <<>>]
                 ELSE _complete_task([d1 EXCEPT !.task.cursor = cursor1], tsv)
            ELSE [d |-> [d1 EXCEPT !.task.cursor = cursor1], events |-> <<>>]

\* Mutant of step_goto: on arrival the position is not snapped to the target.
step_goto_no_snap(d, max_step, tsv) ==
    LET t == d.task
    IN  IF Vec2_norm(Vec2_sub(t.target, d.pos)) <= t.arrive_eps
        THEN _complete_task(d, tsv)
        ELSE [d |-> [d EXCEPT !.pos = _move_towards(d.pos, t.target, max_step).pos],
              events |-> <<>>]

step_goto(d, max_step, tsv) ==
    LET t == d.task
    IN  IF Vec2_norm(Vec2_sub(t.target, d.pos)) <= t.arrive_eps
        THEN _complete_task([d EXCEPT !.pos = t.target], tsv)
        ELSE [d |-> [d EXCEPT !.pos = _move_towards(d.pos, t.target, max_step).pos],
              events |-> <<>>]

step_orbit(d, max_step, dtv, tsv) ==
    LET t       == d.task
        orbit_n == Max(4, d.config.investigate_orbit_points)
        k       == d.orbit_idx % orbit_n
        orbit_target == Vec2(t.center.x + t.radius * Cos4(k),
                             t.center.y + t.radius * Sin4(k))
        mv      == _move_towards(d.pos, orbit_target, max_step)
        d1      == [d EXCEPT !.pos = mv.pos,
                             !.orbit_idx = IF mv.arrived THEN (d.orbit_idx + 1) % orbit_n
                                           ELSE d.orbit_idx,
                             !.task.elapsed_s = t.elapsed_s + dtv]
    IN  IF DurationReached(d1.task) THEN _complete_task(d1, tsv)
        ELSE [d |-> d1, events |-> <<>>]

step_hold(d, max_step, dtv, tsv) ==
    LET t  == d.task
        d1 == [d EXCEPT !.pos = IF Vec2_norm(Vec2_sub(t.pos, d.pos)) > t.hold_eps
                                THEN _move_towards(d.pos, t.pos, max_step).pos
                                ELSE d.pos,
                        !.task.elapsed_s = t.elapsed_s + dtv]
    IN  IF DurationReached(d1.task) THEN _complete_task(d1, tsv)
        ELSE [d |-> d1, events |-> <<>>]

\* A return home that sets the status before it completes the task.
step_return_home_status_first(d, max_step, tsv) ==
    LET t == d.task
    IN  IF Vec2_norm(Vec2_sub(t.home, d.pos)) <= t.arrive_eps
        THEN LET r == _set_status([d EXCEPT !.pos = t.home], "IDLE", tsv)
                 c == _complete_task(r.d, tsv)
             IN  [d |-> c.d, events |-> r.events \o c.events]
        ELSE [d |-> [d EXCEPT !.pos = _move_towards(d.pos, t.home, max_step).pos],
              events |-> <<>>]

step_return_home(d, max_step, tsv) ==
    LET t == d.task
    IN  IF Vec2_norm(Vec2_sub(t.home, d.pos)) <= t.arrive_eps
        THEN LET c == _complete_task([d EXCEPT !.pos = t.home], tsv)
                 r == _set_status(c.d, "IDLE", tsv)
             IN  [d |-> r.d, events |-> c.events \o r.events]
        ELSE [d |-> [d EXCEPT !.pos = _move_towards(d.pos, t.home, max_step).pos],
              events |-> <<>>]

\* The isinstance tests pick the branch; a task that is an instance of none of
\* the subclasses falls through to "Unknown task".
_step_task(d, dtv, tsv) ==
    LET max_step == _effective_speed(d) * dtv
    IN  IF IsBaseTask(d.task) THEN _complete_task(d, tsv) ELSE
        CASE d.task.type = "PATH"        -> step_path(d, max_step, tsv)
          [] d.task.type = "GOTO"        -> step_goto(d, max_step, tsv)
          [] d.task.type = "ORBIT"       -> step_orbit(d, max_step, dtv, tsv)
          [] d.task.type = "HOLD"        -> step_hold(d, max_step, dtv, tsv)
          [] d.task.type = "RETURN_HOME" -> step_return_home(d, max_step, tsv)
          [] OTHER                       -> _complete_task(d, tsv)

\* The enum members line 118 looks up: DroneStatus.RETURN and DroneStatus.IDLE.
\* Looking up a name that is no member of the enum raises AttributeError.
LowBatteryExemptNames == {"RETURN", "IDLE"}

\* Low-battery branch of tick (lines 117-134), entered with the drained battery.
\* The left operand of `and` is evaluated first; only when it is true is the
\* tuple of the right operand built.
tick_low_battery(d, tsv) ==
    IF d.battery <= d.config.battery_low_threshold
    THEN IF ~(LowBatteryExemptNames \subseteq DroneStatus)
         THEN [d |-> d, events |-> <<>>, raised |-> "AttributeError"]
         ELSE IF d.status \notin LowBatteryExemptNames
         THEN LET return_task == ReturnHomeTask("return-" \o d.id \o "-" \o ToString(tsv),
                                                d.home, 1)
                  a == Drone_assign_task(d, return_task, tsv)
              IN  [d |-> a.d,
                   events |-> a.events \o
                       <<DroneEvent("BATTERY_LOW", d.id, a.d.status, TaskIdOf(a.d))>>,
                   raised |-> ""]
         ELSE [d |-> d, events |-> <<>>, raised |-> ""]
    ELSE [d |-> d, events |-> <<>>, raised |-> ""]

\* Mutant of tick_execute: a tick that finds no task leaves the status alone.
tick_execute_no_idle(d, dtv, tsv) ==
    IF d.task = NoTask THEN [d |-> d, events |-> <<>>] ELSE _step_task(d, dtv, tsv)

\* execute task (lines 136-141)
tick_execute(d, dtv, tsv) ==
    IF d.task = NoTask
    THEN IF d.status # "IDLE" THEN _set_status(d, "IDLE", tsv)
         ELSE [d |-> d, events |-> <<>>]
    ELSE _step_task(d, dtv, tsv)

\* A clamp of the x coordinate only.
tick_clamp_x_only(d, bounds) ==
    IF bounds # <<>>
    THEN [d EXCEPT !.pos = Vec2(_clamp(d.pos.x, bounds[1], bounds[2]), d.pos.y)]
    ELSE d

\* Mutant of tick_clamp: the tuple is unpacked as (xmin, ymin, xmax, ymax).
tick_clamp_unpack(d, bounds) ==
    IF bounds # <<>>
    THEN [d EXCEPT !.pos = Vec2(_clamp(d.pos.x, bounds[1], bounds[3]),
                                _clamp(d.pos.y, bounds[2], bounds[4]))]
    ELSE d

\* clamp to bounds (lines 143-146); bounds = <<>> is world_bounds=None
tick_clamp(d, bounds) ==
    IF bounds # <<>>
    THEN [d EXCEPT !.pos = Vec2(_clamp(d.pos.x, bounds[1], bounds[2]),
                                _clamp(d.pos.y, bounds[3], bounds[4]))]
    ELSE d

\* heartbeat (lines 148-160)
tick_heartbeat(d, tsv) ==
    IF tsv - d.last_heartbeat_ts >= d.config.heartbeat_period_s
    THEN [d |-> [d EXCEPT !.last_heartbeat_ts = tsv, !.last_seen_ts = tsv],
          events |-> <<DroneEvent("HEARTBEAT", d.id, d.status, TaskIdOf(d))>>]
    ELSE [d |-> d, events |-> <<>>]

\* Mutant of tick_inert: only OFFLINE is treated as inert.
tick_inert_only_offline(d) == d.status = "OFFLINE"

\* The early return of tick (lines 107-108).
tick_inert(d) == d.status \in {"OFFLINE", "FAILED"}

\* Drone.tick: the new fields, the returned events and the exception raised
\* ("" when the call returns).  A raising call keeps the mutations made so far.
Drone_tick(d, dtv, tsv, bounds) ==
    IF tick_inert(d)
    THEN [d |-> d, events |-> <<>>, raised |-> ""]
    ELSE
    LET d1 == [d EXCEPT !.battery =
                   _clamp(d.battery - d.config.battery_drain_per_s * dtv,
                          0, d.config.battery_capacity)]
        lb == tick_low_battery(d1, tsv)
    IN  IF lb.raised # "" THEN lb
        ELSE
        LET ex == tick_execute(lb.d, dtv, tsv)
            d3 == tick_clamp(ex.d, bounds)
            hb == tick_heartbeat(d3, tsv)
        IN  [d |-> hb.d, events |-> lb.events \o ex.events \o hb.events, raised |-> ""]

----------------------------------------------------------------------------
(* world/types.py, world/zones.py *)

ZoneType == {"FIRE_RISK", "NO_FLY", "SIGNAL_LOSS", "INFO"}

TriggerMode == {"ON_ENTER", "ON_STAY"}

Rect(xmin, xmax, ymin, ymax) == [xmin |-> xmin, xmax |-> xmax, ymin |-> ymin, ymax |-> ymax]

Rect_contains(r, p) == (r.xmin <= p.x /\ p.x <= r.xmax) /\ (r.ymin <= p.y /\ p.y <= r.ymax)

\* Probabilities and random draws are counted in halves: probability 2 is 1.0,
\* and rng.random(), a value of [0, 1), is 0 or 1.
ZoneEventPolicy(trigger_mode, cooldown_s, probability, severity, confidence) ==
    [trigger_mode |-> trigger_mode, cooldown_s |-> cooldown_s,
     probability |-> probability, severity |-> severity, confidence |-> confidence]

Zone(id, type, rect, policy) == [id |-> id, type |-> type, rect |-> rect, policy |-> policy]

Zone_contains(z, p) == Rect_contains(z.rect, p)

\* WorldEvent, reduced to the fields that identify it.
WorldEvent(type, tsv, pos, drone_id, zone_id, severity, confidence) ==
    [type |-> type, ts |-> tsv, pos |-> pos, drone_id |-> drone_id, zone_id |-> zone_id,
     severity |-> severity, confidence |-> confidence]

\* Mutant of EventTypeOf: an INFO zone always reports ENTER_ZONE.
EventTypeOf_no_stay(z, entering) ==
    CASE z.type = "FIRE_RISK"   -> "FIRE_DETECTED"
      [] z.type = "NO_FLY"      -> "NO_FLY_VIOLATION"
      [] z.type = "SIGNAL_LOSS" -> "SIGNAL_LOSS"
      [] OTHER -> "ENTER_ZONE"

\* map zone type -> world event type (lines 88-100)
EventTypeOf(z, entering) ==
    CASE z.type = "FIRE_RISK"   -> "FIRE_DETECTED"
      [] z.type = "NO_FLY"      -> "NO_FLY_VIOLATION"
      [] z.type = "SIGNAL_LOSS" -> "SIGNAL_LOSS"
      [] OTHER -> IF entering THEN "ENTER_ZONE" ELSE "STAY_IN_ZONE"

\* Mutant of Zone_produce_events: the cooldown gate is applied only while the
\* agent stays inside, a re-entry fires at once.
Zone_produce_events_reentry(z, drone_id, pos, tsv, entering, last_fired_ts, draw) ==
    IF z.policy.trigger_mode = "ON_ENTER" /\ ~entering
    THEN [events |-> <<>>, new_last |-> last_fired_ts]
    ELSE IF z.policy.trigger_mode = "ON_STAY" /\ last_fired_ts # None /\ ~entering
            /\ (tsv - last_fired_ts) < z.policy.cooldown_s
    THEN [events |-> <<>>, new_last |-> last_fired_ts]
    ELSE IF draw > z.policy.probability
    THEN [events |-> <<>>, new_last |-> last_fired_ts]
    ELSE [events |-> <<WorldEvent(EventTypeOf(z, entering), tsv, pos, drone_id, z.id,
                                  z.policy.severity, z.policy.confidence)>>,
          new_last |-> tsv]

\* Mutant of Zone_produce_events: a call stopped by the stochastic gate returns
\* ts as the new last-fired timestamp.
Zone_produce_events_gate_ts(z, drone_id, pos, tsv, entering, last_fired_ts, draw) ==
    IF z.policy.trigger_mode = "ON_ENTER" /\ ~entering
    THEN [events |-> <<>>, new_last |-> last_fired_ts]
    ELSE IF z.policy.trigger_mode = "ON_STAY" /\ last_fired_ts # None
            /\ (tsv - last_fired_ts) < z.policy.cooldown_s
    THEN [events |-> <<>>, new_last |-> last_fired_ts]
    ELSE IF draw > z.policy.probability
    THEN [events |-> <<>>, new_last |-> tsv]
    ELSE [events |-> <<WorldEvent(EventTypeOf(z, entering), tsv, pos, drone_id, z.id,
                                  z.policy.severity, z.policy.confidence)>>,
          new_last |-> tsv]

\* Zone.produce_events: returns (events, new_last_fired_ts).  draw is the value
\* rng.random() returns if the stochastic gate is reached.
Zone_produce_events(z, drone_id, pos, tsv, entering, last_fired_ts, draw) ==
    IF z.policy.trigger_mode = "ON_ENTER" /\ ~entering
    THEN [events |-> <<>>, new_last |-> last_fired_ts]
    ELSE IF z.policy.trigger_mode = "ON_STAY" /\ last_fired_ts # None
            /\ (tsv - last_fired_ts) < z.policy.cooldown_s
    THEN [events |-> <<>>, new_last |-> last_fired_ts]
    ELSE IF draw > z.policy.probability
    THEN [events |-> <<>>, new_last |-> last_fired_ts]
    ELSE [events |-> <<WorldEvent(EventTypeOf(z, entering), tsv, pos, drone_id, z.id,
                                  z.policy.severity, z.policy.confidence)>>,
          new_last |-> tsv]

----------------------------------------------------------------------------
(* world/map2d.py *)

RECURSIVE Flatten(_)
\* The concatenation of a sequence of sequences (events.extend in loop order).
Flatten(ss) == IF ss = <<>> THEN <<>> ELSE Head(ss) \o Flatten(Tail(ss))

\* The ids of a sequence of zones.
ZoneIds(zs) == {zs[j].id : j \in 1..Len(zs)}

\* One pass of the inner loop body for drone a and zone z (lines 42-60):
\* no call at all when the zone does not contain the position.
PairResult(in_zones, lastf, z, a, pos, tsv, draw) ==
    IF ~Zone_contains(z, pos)
    THEN [events |-> <<>>, new_last |-> None]
    ELSE Zone_produce_events(z, a, pos, tsv, z.id \notin in_zones[a],
                             lastf[<<a, z.id>>], draw[<<a, z.id>>])

\* Mutant of Map2D_update: the membership set only grows (inside_now is merged
\* into the recorded set instead of replacing it).
Map2D_update_merge(zs, in_zones, lastf, order, positions, tsv, draw) ==
    LET res(a, j) == PairResult(in_zones, lastf, zs[j], a, positions[a], tsv, draw)
    IN  [events |-> Flatten([i \in 1..Len(order) |->
                       Flatten([j \in 1..Len(zs) |-> res(order[i], j).events])]),
         in_zones |-> [a \in DOMAIN in_zones |->
                          IF \E i \in 1..Len(order) : order[i] = a
                          THEN in_zones[a] \cup
                               {zs[j].id : j \in {k \in 1..Len(zs) :
                                                     Zone_contains(zs[k], positions[a])}}
                          ELSE in_zones[a]],
         last_fired |-> [pr \in DOMAIN lastf |->
                          LET js == {k \in 1..Len(zs) : zs[k].id = pr[2]}
                              j  == CHOOSE k \in js : TRUE
                          IN  IF (\E i \in 1..Len(order) : order[i] = pr[1])
                                 /\ res(pr[1], j).new_last # None
                              THEN res(pr[1], j).new_last
                              ELSE lastf[pr]]]

\* Mutant of Map2D_update: the loops are nested the other way round, zones
\* outside and agents inside.
Map2D_update_zones_first(zs, in_zones, lastf, order, positions, tsv, draw) ==
    LET res(a, j) == PairResult(in_zones, lastf, zs[j], a, positions[a], tsv, draw)
    IN  [events |-> Flatten([j \in 1..Len(zs) |->
                       Flatten([i \in 1..Len(order) |-> res(order[i], j).events])]),
         in_zones |-> [a \in DOMAIN in_zones |->
                          IF \E i \in 1..Len(order) : order[i] = a
                          THEN {zs[j].id : j \in {k \in 1..Len(zs) :
                                                     Zone_contains(zs[k], positions[a])}}
                          ELSE in_zones[a]],
         last_fired |-> [pr \in DOMAIN lastf |->
                          LET js == {k \in 1..Len(zs) : zs[k].id = pr[2]}
                              j  == CHOOSE k \in js : TRUE
                          IN  IF (\E i \in 1..Len(order) : order[i] = pr[1])
                                 /\ res(pr[1], j).new_last # None
                              THEN res(pr[1], j).new_last
                              ELSE lastf[pr]]]

\* Map2D.update_and_collect_events(drone_states, ts): order is the iteration
\* order of the drone_states dict, positions its values, draw the random values.
\* Returns the events and the new _drone_in_zones and _last_fired.
Map2D_update(zs, in_zones, lastf, order, positions, tsv, draw) ==
    LET res(a, j) == PairResult(in_zones, lastf, zs[j], a, positions[a], tsv, draw)
    IN  [events |-> Flatten([i \in 1..Len(order) |->
                       Flatten([j \in 1..Len(zs) |-> res(order[i], j).events])]),
         in_zones |-> [a \in DOMAIN in_zones |->
                          IF \E i \in 1..Len(order) : order[i] = a
                          THEN {zs[j].id : j \in {k \in 1..Len(zs) :
                                                     Zone_contains(zs[k], positions[a])}}
                          ELSE in_zones[a]],
         last_fired |-> [pr \in DOMAIN lastf |->
                          LET js == {k \in 1..Len(zs) : zs[k].id = pr[2]}
                              j  == CHOOSE k \in js : TRUE
                          IN  IF (\E i \in 1..Len(order) : order[i] = pr[1])
                                 /\ res(pr[1], j).new_last # None
                              THEN res(pr[1], j).new_last
                              ELSE lastf[pr]]]

\* What the last World.update was given and returned: seen is FALSE before the
\* first update, refire tells that a pair fired that had fired before, draw holds
\* the values rng.random() returned to the pairs that reached the gate.
WObs(seen, pos, evs, refire, draw) ==
    [seen |-> seen, pos |-> pos, events |-> evs, refire |-> refire, draw |-> draw]

----------------------------------------------------------------------------
(* The world rectangle and the inputs the callers are given *)

\* Map2D.width and Map2D.height in length units.
WorldW == 6

WorldH == 2

\* Map2D.bounds()
Map2D_bounds == <<0, WorldW, 0, WorldH>>

\* Where the drone of the single-drone runs is built (pos = home).
Home == Vec2(1, 1)

\* Configurations a drone is built with: the capacity at and below the default
\* battery of the dataclass.
DefaultBattery == 6

DroneConfigs == {DroneConfig(1, cap, 1, 1, 2) : cap \in {DefaultBattery - 1, DefaultBattery}}

\* Tasks a caller assigns.
TaskInputs ==
    {GoToTask("t1", Home, 3), GoToTask("t1", Vec2(5, 1), 1), GoToTask("t2", Vec2(5, 1), 3),
     GoToTask("t1", Vec2(1, 2), 1), GoToTask("t1", Vec2(WorldW + 1, 1), 3),
     PathTask("t1", <<>>, FALSE, 1), PathTask("t1", <<Vec2(3, 1)>>, FALSE, 1),
     PathTask("t2", <<Vec2(3, 1), Home>>, TRUE, 1),
     PathTask("t4", <<Vec2(1, WorldH + 1)>>, TRUE, 1),
     OrbitTask("t1", Vec2(2, 1), 1, None), OrbitTask("t1", Vec2(2, 1), 1, 2),
     HoldTask("t2", Vec2(2, 1), None, 1), HoldTask("t2", Vec2(2, 1), 2, 1),
     ReturnHomeTask("t2", Home, 1), ReturnHomeTask("t4", Vec2(1, WorldH + 1), 1),
     Task("t3", "PATH")}

----------------------------------------------------------------------------
(* Observation of the last call *)

\* Tracking of the GoTo task assigned last: distance at assignment, ticks taken
\* since, whether it completed and where the agent was when it did.
NoGoTo == [active |-> FALSE]

GoToStart(d, task) ==
    [active |-> TRUE, target |-> task.target, eps |-> task.arrive_eps,
     D |-> Vec2_norm(Vec2_sub(task.target, d.pos)), ticks |-> 0,
     done |-> FALSE, at_target |-> FALSE, overshoot |-> 0]

Abs(a) == IF a >= 0 THEN a ELSE -a

\* How far beyond the target the move p0 -> p1 ended, per axis.
Overshoot1(t, p0, p1) == IF (t - p0) * (t - p1) < 0 THEN Abs(t - p1) ELSE 0

Overshoot(target, p0, p1) ==
    Max(Overshoot1(target.x, p0.x, p1.x), Overshoot1(target.y, p0.y, p1.y))

\* The tracking after a tick that took d to r.d.
GoToAfterTick(g, d, r) ==
    IF ~g.active \/ g.done THEN g
    ELSE IF r.raised # "" \/ d.task.type # "GOTO" THEN NoGoTo
    ELSE IF r.d.task = NoTask
    THEN [g EXCEPT !.ticks = @ + 1, !.done = TRUE, !.at_target = (r.d.pos = g.target)]
    ELSE IF r.d.task # d.task THEN NoGoTo
    ELSE [g EXCEPT !.ticks = @ + 1,
                   !.overshoot = Max(@, Overshoot(g.target, d.pos, r.d.pos))]

Obs(op, id, r, raised, arg, idle_run, goto) ==
    [op |-> op, id |-> id, events |-> r.events, raised |-> raised,
     arg |-> arg, idle_run |-> idle_run, goto |-> goto]

----------------------------------------------------------------------------
(* Spec: one Drone driven by a caller that assigns tasks, takes it offline and
   ticks it with a clock advancing by dt, as src/client/test.py does *)

InitWorldOff ==
    /\ zones = <<>>
    /\ drone_in_zones = << >>
    /\ last_fired = << >>
    /\ loop = "none"
    /\ stop_flag = FALSE
    /\ events = <<>>
    /\ wobs = WObs(FALSE, << >>, <<>>, FALSE, << >>)
    /\ lock = "none"
    /\ pc = << >>

Init ==
    /\ \E cfg \in DroneConfigs, st \in {"IDLE", "FAILED"} :
           drones = [id \in {"D1"} |-> Drone(id, Home, Home, cfg, st, DefaultBattery)]
    /\ ts = 0
    /\ dt \in {1, 2}
    /\ world_bounds \in {<<>>, Map2D_bounds}
    /\ InitWorldOff
    /\ obs = Obs("init", "D1", [events |-> <<>>], "", NoTask, 0, NoGoTo)

AssignTask(id, task) ==
    LET d == drones[id]
        r == Drone_assign_task(d, task, ts)
    IN  /\ drones' = [drones EXCEPT ![id] = r.d]
        /\ obs' = Obs("assign_task", id, r, "", task, 0,
                      IF task.type = "GOTO" THEN GoToStart(d, task) ELSE NoGoTo)
        /\ UNCHANGED <<lock, pc, ts, dt, world_bounds, zones, drone_in_zones, last_fired,
                       loop, stop_flag, events, wobs>>

SetOffline(id) ==
    LET d == drones[id]
        r == Drone_set_offline(d, ts)
    IN  /\ d.status # "OFFLINE"
        /\ drones' = [drones EXCEPT ![id] = r.d]
        /\ obs' = Obs("set_offline", id, r, "", NoTask, 0, NoGoTo)
        /\ UNCHANGED <<lock, pc, ts, dt, world_bounds, zones, drone_in_zones, last_fired,
                       loop, stop_flag, events, wobs>>

Tick(id) ==
    LET d == drones[id]
        r == Drone_tick(d, dt, ts + dt, world_bounds)
    IN  /\ ts < MaxTs
        /\ ts' = ts + dt
        /\ drones' = [drones EXCEPT ![id] = r.d]
        /\ obs' = Obs("tick", id, r, r.raised, NoTask,
                      IF d.task = NoTask /\ d.status = "IDLE"
                      THEN Min(2, obs.idle_run + 1) ELSE 0,
                      GoToAfterTick(obs.goto, d, r))
        /\ UNCHANGED <<lock, pc, dt, world_bounds, zones, drone_in_zones, last_fired,
                       loop, stop_flag, events, wobs>>

Next ==
    \/ \E id \in DOMAIN drones, task \in TaskInputs : AssignTask(id, task)
    \/ \E id \in DOMAIN drones : SetOffline(id)
    \/ \E id \in DOMAIN drones : Tick(id)

Spec == Init /\ [][Next]_vars

----------------------------------------------------------------------------
(* Properties of one Drone, checked under Spec *)

\* The step is a call of Drone.tick on drone id.
TickOf(id) == obs'.op = "tick" /\ obs'.id = id

\* The step is a call of Drone.assign_task on drone id.
AssignOf(id) == obs'.op = "assign_task" /\ obs'.id = id

HasEvent(evs, type) == \E i \in 1..Len(evs) : evs[i].type = type

CountEvents(evs, type) == Cardinality({i \in 1..Len(evs) : evs[i].type = type})

\* C1: low-battery preemption.  On every tick of a non-inert agent whose battery
\* after draining is <= battery_low_threshold and whose status is neither
\* RETURNING nor IDLE, the tick returns normally, the task becomes a
\* ReturnHomeTask to the agent's home, the status becomes RETURNING and the
\* returned events contain BATTERY_LOW.
C1_LowBatteryPreemption ==
    [][\A id \in DOMAIN drones :
         (/\ TickOf(id)
          /\ drones[id].status \notin {"RETURNING", "IDLE", "OFFLINE", "FAILED"}
          /\ drones'[id].battery <= drones[id].config.battery_low_threshold)
         => /\ obs'.raised = ""
            /\ drones'[id].task.type = "RETURN_HOME"
            /\ drones'[id].task.home = drones[id].home
            /\ drones'[id].status = "RETURNING"
            /\ HasEvent(obs'.events, "BATTERY_LOW")]_vars

\* C3 as stated: after every completed tick, task = None implies that the status
\* is IDLE, OFFLINE or FAILED.
C3_NullTaskImpliesIdle ==
    \A id \in DOMAIN drones :
        (obs.op = "tick" /\ obs.id = id /\ obs.raised = "" /\ drones[id].task = NoTask)
        => drones[id].status \in {"IDLE", "OFFLINE", "FAILED"}

\* C3 amended: after every completed tick, task = None implies that the status
\* is IDLE, OFFLINE or FAILED, or that this very tick completed a Path, GoTo,
\* Orbit or Hold task, whose status (NAVIGATING, EXECUTING) is then still set.
C3_NullTaskIdleOrJustCompleted ==
    \A id \in DOMAIN drones :
        (obs.op = "tick" /\ obs.id = id /\ obs.raised = "" /\ drones[id].task = NoTask)
        => \/ drones[id].status \in {"IDLE", "OFFLINE", "FAILED"}
           \/ /\ CountEvents(obs.events, "TASK_COMPLETED") = 1
              /\ drones[id].status \in {"NAVIGATING", "EXECUTING"}

\* C3 witness: a tick has just completed a task and left the status NAVIGATING.
C3_Witness ==
    /\ obs.op = "tick" /\ obs.raised = ""
    /\ drones[obs.id].task = NoTask
    /\ drones[obs.id].status = "NAVIGATING"
    /\ HasEvent(obs.events, "TASK_COMPLETED")

\* C4: OFFLINE and FAILED are sinks for tick and assign_task, and OFFLINE is
\* entered only through set_offline.
C4_SinkStates ==
    [][\A id \in DOMAIN drones :
         /\ (drones[id].status \in {"OFFLINE", "FAILED"}
             /\ obs'.op \in {"tick", "assign_task"})
            => drones'[id].status = drones[id].status
         /\ (drones'[id].status = "OFFLINE" /\ drones[id].status # "OFFLINE")
            => obs'.op = "set_offline"]_vars

\* C5: a tick of an OFFLINE or FAILED agent returns no events and leaves every
\* field of the agent unchanged.
C5_InertTickIsNoOp ==
    [][\A id \in DOMAIN drones :
         (TickOf(id) /\ drones[id].status \in {"OFFLINE", "FAILED"})
         => /\ obs'.events = <<>>
            /\ obs'.raised = ""
            /\ drones'[id].pos = drones[id].pos
            /\ drones'[id].battery = drones[id].battery
            /\ drones'[id].status = drones[id].status
            /\ drones'[id].task = drones[id].task
            /\ drones'[id].last_heartbeat_ts = drones[id].last_heartbeat_ts
            /\ drones'[id].last_seen_ts = drones[id].last_seen_ts]_vars

\* C5 witness: an agent that had been ticked (battery drained) was taken offline
\* and ticked again.
C5_Witness ==
    /\ obs.op = "tick"
    /\ drones[obs.id].status = "OFFLINE"
    /\ drones[obs.id].battery <= DefaultBattery - 2

\* The status the claim gives for each task type.
C6_StatusOf(type) ==
    IF type \in {"PATH", "GOTO"} THEN "NAVIGATING"
    ELSE IF type \in {"ORBIT", "HOLD"} THEN "EXECUTING"
    ELSE "RETURNING"

\* C6: assign_task sets the status from the task type, stores the task, and
\* returns events ending in exactly one TASK_ASSIGNED with the new task id,
\* preceded by exactly one STATUS_CHANGED iff the status changed.
C6_AssignTask ==
    [][\A id \in DOMAIN drones :
         AssignOf(id) =>
         LET evs     == obs'.events
             changed == drones'[id].status # drones[id].status
         IN  /\ drones'[id].status = C6_StatusOf(obs'.arg.type)
             /\ drones'[id].task = obs'.arg
             /\ Len(evs) = IF changed THEN 2 ELSE 1
             /\ evs[Len(evs)].type = "TASK_ASSIGNED"
             /\ evs[Len(evs)].task_id = obs'.arg.id
             /\ changed => evs[1].type = "STATUS_CHANGED"]_vars

\* C6 witness: a task was assigned over a task with another id and the same
\* status, so that no STATUS_CHANGED was due.
C6_Witness ==
    /\ obs.op = "assign_task"
    /\ Len(obs.events) = 1
    /\ obs.arg.id = "t2"
    /\ drones[obs.id].status = "NAVIGATING"

\* C7: the battery is within 0..battery_capacity in every reachable state, the
\* initial one included, and never increases from one step to the next.
C7_BatteryBounds ==
    /\ [](\A id \in DOMAIN drones :
            /\ 0 <= drones[id].battery
            /\ drones[id].battery <= drones[id].config.battery_capacity)
    /\ [][\A id \in DOMAIN drones : drones'[id].battery <= drones[id].battery]_vars

\* ceil(a / b) for a >= 0, b > 0
CeilDiv(a, b) == (a + b - 1) \div b

\* speed * dt of the run
StepLen(id) == drones[id].config.speed_mps * dt

InBounds(p) ==
    world_bounds = <<>> \/ (/\ world_bounds[1] <= p.x /\ p.x <= world_bounds[2]
                            /\ world_bounds[3] <= p.y /\ p.y <= world_bounds[4])

IsTimed(t) == t.type \in {"ORBIT", "HOLD"}

\* C12: an Orbit or Hold task starts with elapsed 0, every returning tick adds dt
\* to it, and the tick completes the task (task None, one TASK_COMPLETED with the
\* task's id) exactly when a duration is set and the new elapsed has reached it;
\* so no held task has an elapsed at or beyond its duration, a task with
\* duration None never completes by itself, and one with a duration completes on
\* the first tick at which the sum of dt reaches it.
C12_TimedTaskCompletion ==
    /\ [](\A id \in DOMAIN drones :
            (IsTimed(drones[id].task) /\ drones[id].task.duration_s # None)
            => drones[id].task.elapsed_s < drones[id].task.duration_s)
    /\ [][\A id \in DOMAIN drones :
            /\ (AssignOf(id) /\ IsTimed(obs'.arg)) => drones'[id].task.elapsed_s = 0
            /\ (TickOf(id) /\ obs'.raised = "" /\ IsTimed(drones[id].task)
                 /\ drones[id].status \notin {"OFFLINE", "FAILED"})
                => LET t       == drones[id].task
                       e       == t.elapsed_s + dt
                       reached == t.duration_s # None /\ e >= t.duration_s
                   IN  IF reached
                       THEN /\ drones'[id].task = NoTask
                            /\ CountEvents(obs'.events, "TASK_COMPLETED") = 1
                            /\ \A i \in 1..Len(obs'.events) :
                                  obs'.events[i].type = "TASK_COMPLETED"
                                  => obs'.events[i].task_id = t.id
                       ELSE /\ drones'[id].task = [t EXCEPT !.elapsed_s = e]
                            /\ ~HasEvent(obs'.events, "TASK_COMPLETED")]_vars

\* The move of one tick from pos reaches target: _move_towards arrives.
Reaches(pos, target, max_step) ==
    Vec2_norm(Vec2_sub(target, pos)) <= max_step \/ Vec2_norm(Vec2_sub(target, pos)) <= 0

Near(pos, target, eps) == Vec2_norm(Vec2_sub(target, pos)) <= eps

\* The task of d is due to complete in a tick of dtv: an empty Path, arrival at
\* the last waypoint of a Path that does not loop, a GoTo within arrive_eps of
\* its target, an Orbit or Hold whose elapsed reaches its duration, a ReturnHome
\* within arrive_eps of home, a task of unknown shape.
CompletionDue(d, dtv) ==
    LET t == d.task
        max_step == _effective_speed(d) * dtv
    IN  IF IsBaseTask(t) THEN TRUE
        ELSE CASE t.type = "PATH" ->
                    \/ Len(t.waypoints) = 0
                    \/ /\ ~t.loop
                       /\ t.cursor + 1 = Len(t.waypoints)
                       /\ \/ Near(d.pos, t.waypoints[t.cursor + 1], t.arrive_eps)
                          \/ Reaches(d.pos, t.waypoints[t.cursor + 1], max_step)
               [] t.type = "GOTO" -> Near(d.pos, t.target, t.arrive_eps)
               [] t.type \in {"ORBIT", "HOLD"} ->
                    t.duration_s # None /\ t.elapsed_s + dtv >= t.duration_s
               [] t.type = "RETURN_HOME" -> Near(d.pos, t.home, t.arrive_eps)

\* C24: a returning tick of a non-inert agent that holds a task and is not
\* preempted completes the task exactly when it is due: the task becomes None
\* and the tick returns exactly one TASK_COMPLETED event, which carries the id
\* the task had; a tick of a task that is not due returns none and keeps a task.
C24_CompletionClearsAndReports ==
    [][\A id \in DOMAIN drones :
         (/\ TickOf(id) /\ obs'.raised = ""
          /\ drones[id].task # NoTask
          /\ drones[id].status \notin {"OFFLINE", "FAILED"}
          /\ ~HasEvent(obs'.events, "BATTERY_LOW"))
         => IF CompletionDue(drones[id], dt)
            THEN /\ drones'[id].task = NoTask
                 /\ CountEvents(obs'.events, "TASK_COMPLETED") = 1
                 /\ \A i \in 1..Len(obs'.events) :
                        obs'.events[i].type = "TASK_COMPLETED"
                        => obs'.events[i].task_id = drones[id].task.id
            ELSE /\ drones'[id].task # NoTask
                 /\ drones'[id].task.id = drones[id].task.id
                 /\ ~HasEvent(obs'.events, "TASK_COMPLETED")]_vars

\* C24 witness: the tick that arrived at the only waypoint of a Path that does
\* not loop has completed it.
C24_Witness ==
    /\ obs.op = "tick" /\ obs.raised = ""
    /\ \E i \in 1..Len(obs.events) :
           obs.events[i].type = "TASK_COMPLETED" /\ obs.events[i].task_id = "t1"
    /\ drones[obs.id].task = NoTask
    /\ drones[obs.id].status = "NAVIGATING"
    /\ drones[obs.id].pos = Vec2(3, 1)

\* The indexes of the events of a type in a list of events.
EventIdx(evs, type) == {i \in 1..Len(evs) : evs[i].type = type}

IsReturnHome(t) == t.type = "RETURN_HOME" /\ ~IsBaseTask(t)

\* p clamped into the bounds the ticks are given (p itself when none is).
Clamped(p) ==
    IF world_bounds = <<>> THEN p
    ELSE Vec2(_clamp(p.x, world_bounds[1], world_bounds[2]),
              _clamp(p.y, world_bounds[3], world_bounds[4]))

\* The step is a tick of a non-inert agent that holds a ReturnHome task and is
\* within arrive_eps of its home.
ReturnHomeDue(id) ==
    /\ TickOf(id)
    /\ drones[id].status \notin {"OFFLINE", "FAILED"}
    /\ IsReturnHome(drones[id].task)
    /\ Near(drones[id].pos, drones[id].task.home, drones[id].task.arrive_eps)

\* The tick has ended at the given position with the task completed and the
\* status IDLE, and has returned TASK_COMPLETED before STATUS_CHANGED to IDLE.
ReturnHomeDone(id, at) ==
    /\ drones'[id].pos = at
    /\ drones'[id].task = NoTask
    /\ drones'[id].status = "IDLE"
    /\ Cardinality(EventIdx(obs'.events, "TASK_COMPLETED")) = 1
    /\ Cardinality(EventIdx(obs'.events, "STATUS_CHANGED")) = 1
    /\ \A i \in EventIdx(obs'.events, "TASK_COMPLETED"),
          j \in EventIdx(obs'.events, "STATUS_CHANGED") :
           i < j /\ obs'.events[j].status = "IDLE"

\* A tick that completes a task of another type leaves the status as it was and
\* returns no STATUS_CHANGED.
OtherCompletionKeepsStatus(id) ==
    (/\ TickOf(id) /\ obs'.raised = ""
     /\ drones[id].status \notin {"OFFLINE", "FAILED"}
     /\ ~HasEvent(obs'.events, "BATTERY_LOW")
     /\ drones[id].task # NoTask /\ ~IsReturnHome(drones[id].task)
     /\ drones'[id].task = NoTask)
    => /\ drones'[id].status = drones[id].status
       /\ ~HasEvent(obs'.events, "STATUS_CHANGED")

\* C25: a tick of a non-inert agent with a ReturnHome task, within arrive_eps of
\* home, ends with the position exactly home, the task None and the status
\* IDLE, and returns TASK_COMPLETED before the STATUS_CHANGED to IDLE; ReturnHome
\* is the only type whose completing tick changes the status.
C25_ReturnHomeArrival ==
    [][\A id \in DOMAIN drones :
         /\ ReturnHomeDue(id) => ReturnHomeDone(id, drones[id].task.home)
         /\ OtherCompletionKeepsStatus(id)]_vars

\* What holds of the ticks that return: the arrival, with the position at the
\* end of the tick being home clamped into the bounds the tick is given.
ReturnHomeArrivalOfReturningTicks ==
    [][\A id \in DOMAIN drones :
         /\ (ReturnHomeDue(id) /\ obs'.raised = "")
            => ReturnHomeDone(id, Clamped(drones[id].task.home))
         /\ OtherCompletionKeepsStatus(id)]_vars

IsPath(t) == t.type = "PATH" /\ ~IsBaseTask(t)

\* After a tick a Path task that is still assigned has its cursor on one of its
\* waypoints.
PathCursorInRange ==
    \A id \in DOMAIN drones :
        (obs.op = "tick" /\ obs.id = id /\ IsPath(drones[id].task))
        => /\ 0 <= drones[id].task.cursor
           /\ drones[id].task.cursor < Len(drones[id].task.waypoints)

\* What a tick does to the Path task of agent d and to its position, with the
\* position an arriving tick ends at given as a function of the waypoint.
PathStepDone(id, At(_)) ==
    LET d  == drones[id]
        t  == d.task
        n  == Len(t.waypoints)
    IN  IF n = 0
        THEN drones'[id].task = NoTask /\ drones'[id].pos = d.pos
        ELSE LET wp == t.waypoints[t.cursor + 1]
             IN  IF \/ Near(d.pos, wp, t.arrive_eps)
                    \/ Reaches(d.pos, wp, _effective_speed(d) * dt)
                 THEN /\ drones'[id].pos = At(wp)
                      /\ IF t.cursor + 1 < n
                         THEN drones'[id].task = [t EXCEPT !.cursor = t.cursor + 1]
                         ELSE IF t.loop
                         THEN drones'[id].task = [t EXCEPT !.cursor = 0]
                         ELSE drones'[id].task = NoTask
                 ELSE drones'[id].task = t

\* The step is a tick of a non-inert agent that holds a Path task.
PathTicked(id) ==
    /\ TickOf(id)
    /\ drones[id].status \notin {"OFFLINE", "FAILED"}
    /\ IsPath(drones[id].task)

SamePoint(p) == p

\* C26: a Path task starts with cursor 0; after every tick that leaves it
\* assigned 0 <= cursor < number of waypoints; an arriving tick ends with the
\* position exactly the waypoint and advances the cursor by one, wrapping to 0
\* at the end when loop is true and completing the task otherwise; an empty
\* list completes on the first tick without moving the agent.
C26_PathCursor ==
    /\ []PathCursorInRange
    /\ [][\A id \in DOMAIN drones :
            /\ (AssignOf(id) /\ IsPath(obs'.arg)) => drones'[id].task.cursor = 0
            /\ PathTicked(id) => PathStepDone(id, SamePoint)]_vars

\* What holds of the ticks that return: the same, with the position at the end
\* of an arriving tick being the waypoint clamped into the bounds the tick is
\* given.
PathCursorOfReturningTicks ==
    /\ [](obs.raised = "" => PathCursorInRange)
    /\ [][\A id \in DOMAIN drones :
            /\ (AssignOf(id) /\ IsPath(obs'.arg)) => drones'[id].task.cursor = 0
            /\ (PathTicked(id) /\ obs'.raised = "" /\ ~HasEvent(obs'.events, "BATTERY_LOW"))
               => PathStepDone(id, Clamped)]_vars

HeartbeatStep(id) ==
    IF ts' - drones[id].last_heartbeat_ts >= drones[id].config.heartbeat_period_s
    THEN /\ Cardinality(EventIdx(obs'.events, "HEARTBEAT")) = 1
         /\ obs'.events[Len(obs'.events)].type = "HEARTBEAT"
         /\ drones'[id].last_heartbeat_ts = ts'
         /\ drones'[id].last_seen_ts = ts'
    ELSE /\ ~HasEvent(obs'.events, "HEARTBEAT")
         /\ drones'[id].last_heartbeat_ts = drones[id].last_heartbeat_ts

\* last_heartbeat_ts is the ts of the agent's latest HEARTBEAT: only a tick that
\* returns a HEARTBEAT changes it, so two HEARTBEATs of one agent are at least
\* one period apart.
HeartbeatsApart(id) ==
    /\ drones'[id].last_heartbeat_ts # drones[id].last_heartbeat_ts
          => TickOf(id) /\ HasEvent(obs'.events, "HEARTBEAT")
    /\ (TickOf(id) /\ HasEvent(obs'.events, "HEARTBEAT"))
          => ts' - drones[id].last_heartbeat_ts >= drones[id].config.heartbeat_period_s

\* C28: a tick of a non-inert agent returns a HEARTBEAT if and only if
\* ts - last_heartbeat_ts >= heartbeat period, and then sets last_heartbeat_ts
\* and last_seen_ts to ts; the HEARTBEAT is the last event of the tick and
\* HEARTBEATs of one agent are at least one period apart.
C28_HeartbeatWhenDue ==
    [][\A id \in DOMAIN drones :
         /\ (TickOf(id) /\ drones[id].status \notin {"OFFLINE", "FAILED"})
               => HeartbeatStep(id)
         /\ HeartbeatsApart(id)]_vars

\* What holds of the ticks that return.
HeartbeatOfReturningTicks ==
    [][\A id \in DOMAIN drones :
         /\ (TickOf(id) /\ obs'.raised = ""
             /\ drones[id].status \notin {"OFFLINE", "FAILED"})
               => HeartbeatStep(id)
         /\ HeartbeatsApart(id)]_vars

\* C12 witness: with dt 1 a task of duration 2 has completed on its second tick,
\* leaving the status EXECUTING.
C12_Witness ==
    /\ obs.op = "tick" /\ obs.raised = "" /\ dt = 1
    /\ HasEvent(obs.events, "TASK_COMPLETED")
    /\ drones[obs.id].task = NoTask
    /\ drones[obs.id].status = "EXECUTING"

----------------------------------------------------------------------------
(* SpecWorld: a Map2D with two zones, updated with the positions of two agents *)

WorldDrones == <<"D1", "D2">>

\* Positions an agent is reported at: outside both zones, in z1 only, in both.
WorldPoints == {Vec2(1, 1), Vec2(3, 1), Vec2(4, 1)}

\* The zones of a world: z1 fires on entering with probability 1.0 and a
\* cooldown longer than any run; z2 is an INFO zone.
WorldZones(ty, mode, cd, pr) ==
    <<Zone("z1", ty, Rect(2, 4, 0, 2), ZoneEventPolicy("ON_ENTER", 9, 2, 9, 8)),
      Zone("z2", "INFO", Rect(4, 6, 0, 2), ZoneEventPolicy(mode, cd, pr, 5, 7))>>

\* The worlds: z2 with either trigger mode and probability 0.0 or 1.0, an
\* ON_STAY z2 also with a cooldown of two or three updates, and z1 of each of
\* the three alarm types.
ZoneConfigs ==
    {WorldZones("FIRE_RISK", "ON_ENTER", 2, pr) : pr \in {0, 2}}
    \cup {WorldZones("FIRE_RISK", "ON_STAY", cd, pr) : cd \in {2, 3}, pr \in {0, 2}}
    \cup {WorldZones(ty, "ON_STAY", 2, 2) : ty \in {"NO_FLY", "SIGNAL_LOSS"}}

\* Values rng.random() returns, in halves.
Draws == {0, 1}

InitWorld ==
    /\ drones = << >>
    /\ ts = 0
    /\ dt = 1
    /\ world_bounds = Map2D_bounds
    /\ zones \in ZoneConfigs
    /\ drone_in_zones = [a \in {"D1", "D2"} |-> {}]
    /\ last_fired = [pr \in {"D1", "D2"} \X {"z1", "z2"} |-> None]
    /\ loop = "none"
    /\ stop_flag = FALSE
    /\ events = <<>>
    /\ obs = Obs("init", "D1", [events |-> <<>>], "", NoTask, 0, NoGoTo)
    /\ wobs = WObs(FALSE, << >>, <<>>, FALSE, << >>) @@ [order |-> <<>>]
    /\ lock = "none"
    /\ pc = << >>

\* An ON_ENTER pair that had fired before has fired again.
Refired(evs, lastf) ==
    \E i \in 1..Len(evs) : lastf[<<evs[i].drone_id, evs[i].zone_id>>] # None
                           /\ evs[i].zone_id = "z1"

\* The call for agent a and zone z reaches rng.random(): the zone contains the
\* agent and neither the ON_ENTER nor the cooldown gate returned before it.
GateReached(z, a, pos, tsv) ==
    /\ Zone_contains(z, pos)
    /\ ~(z.policy.trigger_mode = "ON_ENTER" /\ z.id \in drone_in_zones[a])
    /\ ~(/\ z.policy.trigger_mode = "ON_STAY"
         /\ last_fired[<<a, z.id>>] # None
         /\ (tsv - last_fired[<<a, z.id>>]) < z.policy.cooldown_s)

\* The orders in which a positions dict can hold the two agents.
WorldOrders == {WorldDrones, <<WorldDrones[2], WorldDrones[1]>>}

\* One call of World.update with every agent's position, the dict holding the
\* agents in the given order.  A pair that does not reach rng.random() makes no
\* draw: its entry of draw is left at 0.
WorldUpdate(order, positions, draw) ==
    LET r == Map2D_update(zones, drone_in_zones, last_fired, order,
                          positions, ts + dt, draw)
    IN  /\ ts < MaxWorldTs
        /\ \A pr \in DOMAIN draw :
              draw[pr] # 0 => \E j \in 1..Len(zones) :
                                /\ zones[j].id = pr[2]
                                /\ GateReached(zones[j], pr[1], positions[pr[1]], ts + dt)
        /\ ts' = ts + dt
        /\ drone_in_zones' = r.in_zones
        /\ last_fired' = r.last_fired
        /\ wobs' = WObs(TRUE, positions, r.events, Refired(r.events, last_fired), draw)
                    @@ [order |-> order]
        /\ UNCHANGED <<lock, pc, drones, dt, world_bounds, zones, loop, stop_flag, events, obs>>

NextWorld ==
    \E order \in WorldOrders,
       positions \in [{"D1", "D2"} -> WorldPoints],
       draw \in [{"D1", "D2"} \X {"z1", "z2"} -> Draws] :
        WorldUpdate(order, positions, draw)

SpecWorld == InitWorld /\ [][NextWorld]_vars

\* The events of one update for agent a and zone zid.
PairEvents(evs, a, zid) ==
    Cardinality({i \in 1..Len(evs) : evs[i].drone_id = a /\ evs[i].zone_id = zid})

\* C10: for an ON_ENTER zone with probability 1.0, an update returns exactly one
\* event for an agent whose membership went outside -> inside since the previous
\* update (or that is inside at the first update) and none otherwise, whatever
\* cooldown_s is; so a stay yields one event and each re-entry one more.
C10_OnEnterOncePerStay ==
    [][wobs'.seen /\ wobs' # wobs =>
       \A a \in DOMAIN wobs'.pos : \A j \in 1..Len(zones) :
          (zones[j].policy.trigger_mode = "ON_ENTER" /\ zones[j].policy.probability = 2)
          => LET now    == Zone_contains(zones[j], wobs'.pos[a])
                 before == wobs.seen /\ Zone_contains(zones[j], wobs.pos[a])
             IN  PairEvents(wobs'.events, a, zones[j].id) =
                     IF now /\ ~before THEN 1 ELSE 0]_vars

\* C10 witness: an agent that had fired z1 before, left it and came back has
\* fired it again, with a cooldown far longer than the time in between.
C10_Witness ==
    /\ wobs.seen /\ wobs.refire
    /\ zones[1].policy.cooldown_s = 9

\* Agent a is inside zone z at this update and was not at the previous one (or
\* there was none): the update on which a contiguous stay begins.
StayBegins(z, a) ==
    /\ Zone_contains(z, wobs'.pos[a])
    /\ ~(wobs.seen /\ Zone_contains(z, wobs.pos[a]))

\* Of an ON_ENTER zone and every draw: rng.random() is reached only on the
\* update a stay begins with, an event is returned exactly when that draw passes
\* the gate, and never more than one; so a stay has at most one event, and none
\* when the entering draw failed.
OnEnterDrawDecidesStay(z, a) ==
    LET n == PairEvents(wobs'.events, a, z.id)
    IN  /\ GateReached(z, a, wobs'.pos[a], ts') <=> StayBegins(z, a)
        /\ n = IF StayBegins(z, a) /\ wobs'.draw[<<a, z.id>>] <= z.policy.probability
               THEN 1 ELSE 0

\* C37: for an ON_ENTER zone with any probability and any draws there is at most
\* one event per contiguous stay, the draw is made only on the entering update,
\* a failed draw leaves the rest of the stay without event, and with
\* probability 0 no event is ever emitted.
C37_OnEnterAnyProbability ==
    [][wobs'.seen /\ wobs' # wobs =>
       \A a \in DOMAIN wobs'.pos : \A j \in 1..Len(zones) :
          zones[j].policy.trigger_mode = "ON_ENTER"
          => /\ PairEvents(wobs'.events, a, zones[j].id) <= 1
             /\ PairEvents(wobs'.events, a, zones[j].id) = 1 => StayBegins(zones[j], a)
             /\ GateReached(zones[j], a, wobs'.pos[a], ts') => StayBegins(zones[j], a)
             /\ zones[j].policy.probability = 0
                => PairEvents(wobs'.events, a, zones[j].id) = 0]_vars

\* What holds instead: everything but the last part; with probability 0 an
\* entering draw of 0.0 passes the gate.
OnEnterOfAnyDraw ==
    [][wobs'.seen /\ wobs' # wobs =>
       \A a \in DOMAIN wobs'.pos : \A j \in 1..Len(zones) :
          zones[j].policy.trigger_mode = "ON_ENTER"
          => OnEnterDrawDecidesStay(zones[j], a)]_vars

\* The step is a call of World.update.
UpdateStep == ts' = ts + dt

\* The event type the claim gives for a zone type.
C11_TypeOf(type, entering) ==
    IF type = "FIRE_RISK" THEN "FIRE_DETECTED"
    ELSE IF type = "NO_FLY" THEN "NO_FLY_VIOLATION"
    ELSE IF type = "SIGNAL_LOSS" THEN "SIGNAL_LOSS"
    ELSE IF entering THEN "ENTER_ZONE" ELSE "STAY_IN_ZONE"

\* The indices of the events of one update for agent a and zone zid.
PairIdx(evs, a, zid) == {i \in 1..Len(evs) : evs[i].drone_id = a /\ evs[i].zone_id = zid}

\* C11: when all gates pass (the zone contains the agent, the ON_ENTER and the
\* cooldown gate let the call through and the draw does not exceed the
\* probability), the update returns exactly one event for the pair, of the type
\* given by the zone type, with the caller's agent id and timestamp, the zone's
\* id, severity and confidence, and ts becomes the pair's last-fired timestamp.
C11_OneEventWhenGatesPass ==
    [][UpdateStep =>
       \A a \in DOMAIN wobs'.pos : \A j \in 1..Len(zones) :
          LET z   == zones[j]
              idx == PairIdx(wobs'.events, a, z.id)
          IN  (/\ GateReached(z, a, wobs'.pos[a], ts')
               /\ wobs'.draw[<<a, z.id>>] <= z.policy.probability)
              => /\ Cardinality(idx) = 1
                 /\ \A i \in idx :
                       /\ wobs'.events[i].type = C11_TypeOf(z.type, z.id \notin drone_in_zones[a])
                       /\ wobs'.events[i].ts = ts'
                       /\ wobs'.events[i].pos = wobs'.pos[a]
                       /\ wobs'.events[i].severity = z.policy.severity
                       /\ wobs'.events[i].confidence = z.policy.confidence
                 /\ last_fired'[<<a, z.id>>] = ts']_vars

\* C11 witness: one update returned a NO_FLY_VIOLATION of z1 and a STAY_IN_ZONE
\* of z2, the latter after a draw of 0.5 against probability 1.0.
C11_Witness ==
    /\ wobs.seen
    /\ \E i \in 1..Len(wobs.events) : wobs.events[i].type = "NO_FLY_VIOLATION"
    /\ \E i \in 1..Len(wobs.events) :
          /\ wobs.events[i].type = "STAY_IN_ZONE"
          /\ wobs.draw[<<wobs.events[i].drone_id, "z2">>] = 1

\* C13: for an ON_STAY zone, an update returns at most one event per pair, a
\* pair's last-fired timestamp is the time of its latest event (it changes
\* exactly when the pair fires, to the time of the update), and a pair that has
\* fired before fires only when ts - last_fired >= cooldown_s; so two consecutive
\* events of a pair are at least cooldown_s apart, exits and re-entries
\* included.  With probability 1.0 the pair fires on every update at which the
\* agent is inside and has not fired before or ts - last_fired >= cooldown_s.
C13_OnStayCooldown ==
    [][UpdateStep =>
       \A a \in DOMAIN wobs'.pos : \A j \in 1..Len(zones) :
          zones[j].policy.trigger_mode = "ON_STAY" =>
          LET z     == zones[j]
              pr    == <<a, z.id>>
              n     == PairEvents(wobs'.events, a, z.id)
              ready == last_fired[pr] = None \/ ts' - last_fired[pr] >= z.policy.cooldown_s
          IN  /\ n <= 1
              /\ n = 1 => (ready /\ last_fired'[pr] = ts')
              /\ n = 0 => last_fired'[pr] = last_fired[pr]
              /\ (z.policy.probability = 2 /\ Zone_contains(z, wobs'.pos[a]) /\ ready)
                 => n = 1]_vars

\* C13 witness: an agent fired an ON_STAY zone, left it, and fired it again on a
\* later update, cooldown_s after the first event.
C13_Witness ==
    /\ wobs.seen /\ zones[2].policy.trigger_mode = "ON_STAY"
    /\ \E a \in DOMAIN wobs.pos :
          /\ PairEvents(wobs.events, a, "z2") = 1
          /\ ts = 1 + zones[2].policy.cooldown_s
          /\ wobs.events[CHOOSE i \in PairIdx(wobs.events, a, "z2") : TRUE].type = "ENTER_ZONE"

\* The step is a returning tick that completes a Path, GoTo, Orbit or Hold task.
CompletesOn(id) ==
    /\ TickOf(id) /\ obs'.raised = ""
    /\ drones[id].task.type \in {"PATH", "GOTO", "ORBIT", "HOLD"}
    /\ ~IsBaseTask(drones[id].task)
    /\ drones'[id].task = NoTask

\* The last call was a tick that completed the task of agent id and left the
\* status of that task: nothing has been assigned since.
JustCompleted(id) ==
    /\ obs.op = "tick" /\ obs.id = id /\ obs.raised = ""
    /\ HasEvent(obs.events, "TASK_COMPLETED")
    /\ drones[id].task = NoTask
    /\ drones[id].status \in {"NAVIGATING", "EXECUTING"}

\* The tick after the completing one has set IDLE with one STATUS_CHANGED.
IdleNow(id) ==
    /\ drones'[id].status = "IDLE"
    /\ CountEvents(obs'.events, "STATUS_CHANGED") = 1
    /\ \A i \in EventIdx(obs'.events, "STATUS_CHANGED") : obs'.events[i].status = "IDLE"

\* The completing tick leaves the status the task was assigned with.
CompletionKeepsTaskStatus(id) ==
    CompletesOn(id) => /\ drones'[id].status = StatusForTask(drones[id].task.type)
                       /\ HasEvent(obs'.events, "TASK_COMPLETED")
                       /\ ~HasEvent(obs'.events, "STATUS_CHANGED")

\* C38: the tick on which a Path, GoTo, Orbit or Hold task completes leaves the
\* status NAVIGATING or EXECUTING with the task None, and the next tick, nothing
\* having been assigned in between, sets the status to IDLE and returns exactly
\* one STATUS_CHANGED: the agent is IDLE one tick after the completion.
C38_IdleOneTickAfterCompletion ==
    [][\A id \in DOMAIN drones :
         /\ CompletionKeepsTaskStatus(id)
         /\ (JustCompleted(id) /\ TickOf(id)) => IdleNow(id)]_vars

\* What holds instead: the same, of next ticks that return.
IdleAfterCompletionOfReturningTicks ==
    [][\A id \in DOMAIN drones :
         /\ CompletionKeepsTaskStatus(id)
         /\ (JustCompleted(id) /\ TickOf(id) /\ obs'.raised = "") => IdleNow(id)]_vars

----------------------------------------------------------------------------
(* edge_server.py: EdgeRuntime *)

\* A task payload of the HTTP interface: keys is the set of keys the dict has.
Payload(keys, type, target, waypoints, loop_, drone_id) ==
    [keys |-> keys, type |-> type, target |-> target, waypoints |-> waypoints,
     loop |-> loop_, drone_id |-> drone_id]

\* EdgeRuntime._parse_task: the task built, or the exception raised.  p["k"] on a
\* missing key raises KeyError; arrive_eps defaults to 2.0, loop to True, the id
\* to a name derived from ts.
_parse_task(ds, p, tsv) ==
    LET t == IF "type" \in p.keys THEN p.type ELSE ""
    IN  CASE t = "GOTO" ->
               IF "target" \notin p.keys THEN [raised |-> "KeyError", task |-> NoTask]
               ELSE [raised |-> "",
                     task |-> GoToTask("goto_" \o ToString(tsv * 10), p.target, 2)]
          [] t = "PATH" ->
               IF "waypoints" \notin p.keys THEN [raised |-> "KeyError", task |-> NoTask]
               ELSE [raised |-> "",
                     task |-> PathTask("path_" \o ToString(tsv * 10), p.waypoints,
                                       IF "loop" \in p.keys THEN p.loop ELSE TRUE, 1)]
          [] t = "HOLD" ->
               IF "drone_id" \notin p.keys THEN [raised |-> "ValueError", task |-> NoTask]
               ELSE IF p.drone_id \notin DOMAIN ds
               THEN [raised |-> "KeyError", task |-> NoTask]
               ELSE [raised |-> "",
                     task |-> PathTask("hold_" \o ToString(tsv * 10),
                                       <<ds[p.drone_id].pos, ds[p.drone_id].pos>>, TRUE, 1)]
          [] OTHER -> [raised |-> "ValueError", task |-> NoTask]

\* An assign_task that drops the drone's current task before it parses the new one.
EdgeRuntime_assign_task_clear_first(ds, drone_id, p, tsv) ==
    IF drone_id \notin DOMAIN ds THEN [drones |-> ds, raised |-> "ValueError"]
    ELSE LET parsed == _parse_task(ds, p, tsv)
         IN  IF parsed.raised # ""
             THEN [drones |-> [ds EXCEPT ![drone_id].task = NoTask,
                                         ![drone_id].status = "IDLE"],
                   raised |-> parsed.raised]
             ELSE [drones |-> [ds EXCEPT ![drone_id] =
                                  Drone_assign_task(ds[drone_id], parsed.task, tsv).d],
                   raised |-> ""]

\* EdgeRuntime.assign_task (the block under the lock): the new drones and the
\* exception raised ("" when the call returns ok).
EdgeRuntime_assign_task(ds, drone_id, p, tsv) ==
    IF drone_id \notin DOMAIN ds THEN [drones |-> ds, raised |-> "ValueError"]
    ELSE LET parsed == _parse_task(ds, p, tsv)
         IN  IF parsed.raised # "" THEN [drones |-> ds, raised |-> parsed.raised]
             ELSE [drones |-> [ds EXCEPT ![drone_id] =
                                  Drone_assign_task(ds[drone_id], parsed.task, tsv).d],
                   raised |-> ""]

\* The POST /cmd/assign_task handler: the HTTP status of the response to a call
\* of EdgeRuntime.assign_task that raised the given exception.  Only ValueError
\* is caught; the framework answers any other exception with 500.
assign_task_status(raised) ==
    CASE raised = "" -> 200
      [] raised = "ValueError" -> 400
      [] OTHER -> 500

\* The for loop of lines 211-212: the result after the first i drones of the
\* order.  An exception raised by a tick is not caught, it ends the loop with the
\* drones ticked so far.
tick_drones(ds, order, dtv, tsv) ==
    LET after[i \in 0..Len(order)] ==
            IF i = 0 THEN [drones |-> ds, ticked |-> <<>>, raised |-> ""]
            ELSE LET prev == after[i - 1]
                     r == Drone_tick(prev.drones[order[i]], dtv, tsv, Map2D_bounds)
                 IN  IF prev.raised # "" THEN prev
                     ELSE [drones |-> [prev.drones EXCEPT ![order[i]] = r.d],
                           ticked |-> IF r.raised = "" THEN Append(prev.ticked, order[i])
                                      ELSE prev.ticked,
                           raised |-> r.raised]
    IN  after[Len(order)]

\* A bounded buffer that is full and refuses what is appended to it.
DequeExtend_drop_newest(q, new, n) ==
    LET all == q \o new
    IN  IF Len(all) <= n THEN all ELSE SubSeq(all, 1, n)

\* deque(maxlen=n).append for each element of new
DequeExtend(q, new, n) ==
    LET all == q \o new
    IN  IF Len(all) <= n THEN all ELSE SubSeq(all, Len(all) - n + 1, Len(all))

\* EventModel built from a WorldEvent (lines 219-228)
EventModel(we) ==
    [ts |-> we.ts, type |-> we.type, drone_id |-> we.drone_id, pos |-> we.pos,
     severity |-> we.severity, confidence |-> we.confidence]

----------------------------------------------------------------------------
(* SpecRuntime: the EdgeRuntime with two drones and one fire zone; the
   background thread runs _loop while callers start, stop and assign tasks *)

\* Iteration order of EdgeRuntime.drones (a dict keeps insertion order).
RuntimeDrones == <<"D1", "D2">>

\* The fire zones of the runtime: ON_ENTER, probability 1.0 (lines 113-125).
\* The second one contains the home of D2.
RuntimeZones ==
    <<Zone("z1", "FIRE_RISK", Rect(2, 4, 0, 2), ZoneEventPolicy("ON_ENTER", 9, 2, 9, 8)),
      Zone("z2", "FIRE_RISK", Rect(5, 6, 0, 2), ZoneEventPolicy("ON_ENTER", 9, 2, 8, 9))>>

\* deque(maxlen=200) and the [-50:] of a snapshot, scaled to the number of events
\* a run of the model produces.
EventsMaxLen == 3

SnapshotLen == 2

\* Payloads the callers post.
RuntimePayloads ==
    {Payload({"type", "target"}, "GOTO", Vec2(5, 1), <<>>, TRUE, "None"),
     Payload({"type", "waypoints", "loop"}, "PATH", Home, <<Vec2(3, 1)>>, FALSE, "None"),
     Payload({"type"}, "ORBIT", Home, <<>>, TRUE, "None"),
     Payload({"type"}, "GOTO", Home, <<>>, TRUE, "None")}

\* Observation of a runtime step: the drones whose tick returned in the
\* iteration, the exception that ended the call or the thread, and the number of
\* assign_task calls made so far.
RtObs(op, id, raised, ticked, calls) ==
    [op |-> op, id |-> id, events |-> <<>>, raised |-> raised, arg |-> NoTask,
     idle_run |-> 0, goto |-> NoGoTo, ticked |-> ticked, calls |-> calls]

InitRuntimeState ==
    /\ drones = [id \in {"D1", "D2"} |->
                    Drone(id, IF id = "D1" THEN Home ELSE Vec2(5, 1),
                          IF id = "D1" THEN Home ELSE Vec2(5, 1),
                          DroneConfig(1, DefaultBattery, 1, 1, 2), "IDLE", DefaultBattery)]
    /\ ts = 0
    /\ dt = 1
    /\ world_bounds = Map2D_bounds
    /\ zones = RuntimeZones
    /\ drone_in_zones = [a \in {"D1", "D2"} |-> {}]
    /\ last_fired = [pr \in {"D1", "D2"} \X ZoneIds(RuntimeZones) |-> None]
    /\ loop = "none"
    /\ stop_flag = FALSE
    /\ events = <<>>
    /\ wobs = WObs(FALSE, << >>, <<>>, FALSE, << >>)
    /\ lock = "none"

InitRuntime ==
    /\ InitRuntimeState
    /\ obs = RtObs("init", "None", "", <<>>, 0)
    /\ pc = << >>

\* The thread object exists and has neither returned nor died.
ThreadAlive == loop \in {"check", "body"}

\* EdgeRuntime.start
Start ==
    /\ ~ThreadAlive
    /\ stop_flag' = FALSE
    /\ loop' = "check"
    /\ obs' = RtObs("start", "None", "", <<>>, obs.calls)
    /\ UNCHANGED <<lock, pc, drones, ts, dt, world_bounds, zones, drone_in_zones, last_fired,
                   events, wobs>>

\* EdgeRuntime.stop
Stop ==
    /\ ~stop_flag
    /\ stop_flag' = TRUE
    /\ obs' = RtObs("stop", "None", "", <<>>, obs.calls)
    /\ UNCHANGED <<lock, pc, drones, ts, dt, world_bounds, zones, drone_in_zones, last_fired,
                   loop, events, wobs>>

\* while not self._stop.is_set()
LoopCheck ==
    /\ loop = "check"
    /\ loop' = IF stop_flag THEN "exited" ELSE "body"
    /\ obs' = RtObs("check", "None", "", <<>>, obs.calls)
    /\ UNCHANGED <<lock, pc, drones, ts, dt, world_bounds, zones, drone_in_zones, last_fired,
                   stop_flag, events, wobs>>

\* One iteration body (lines 206-234): under the lock ts advances, the drones
\* are ticked in order, the world is updated and its events are appended.
\* Every zone of the runtime has probability 1.0, so the draws decide nothing.
LoopBody ==
    \E tk \in {tick_drones(drones, RuntimeDrones, dt, ts + dt)} :
    \E positions \in {[a \in DOMAIN tk.drones |-> tk.drones[a].pos]} :
    \E w \in {Map2D_update(zones, drone_in_zones, last_fired, RuntimeDrones,
                           positions, ts + dt, [pr \in DOMAIN last_fired |-> 0])} :
        /\ loop = "body"
        /\ ts < MaxTs
        /\ ts' = ts + dt
        /\ drones' = tk.drones
        /\ IF tk.raised # ""
           THEN /\ loop' = "crashed"
                /\ UNCHANGED <<drone_in_zones, last_fired, events, wobs>>
           ELSE /\ loop' = "check"
                /\ drone_in_zones' = w.in_zones
                /\ last_fired' = w.last_fired
                /\ events' = DequeExtend(events, [i \in 1..Len(w.events) |->
                                                     EventModel(w.events[i])],
                                      EventsMaxLen)
                /\ wobs' = WObs(TRUE, positions, w.events, Refired(w.events, last_fired),
                               [pr \in DOMAIN last_fired |-> 0])
        /\ obs' = RtObs("loop", "None", tk.raised, tk.ticked, obs.calls)
        /\ UNCHANGED <<lock, pc, dt, world_bounds, zones, stop_flag>>

\* A caller's EdgeRuntime.assign_task(drone_id, payload)
RuntimeAssign(drone_id, p) ==
    LET r == EdgeRuntime_assign_task(drones, drone_id, p, ts)
    IN  /\ loop # "none"
        /\ obs.calls < MaxCalls
        /\ drones' = r.drones
        /\ obs' = RtObs("assign_task", drone_id, r.raised, <<>>, obs.calls + 1)
                   @@ [payload |-> p]
        /\ UNCHANGED <<lock, pc, ts, dt, world_bounds, zones, drone_in_zones, last_fired,
                       loop, stop_flag, events, wobs>>

\* A GOTO whose target lies outside the world rectangle, farther from its edge
\* than the default arrive_eps and than one step.
FarPayload == Payload({"type", "target"}, "GOTO", Vec2(WorldW + 3, 1), <<>>, TRUE, "None")

\* HOLD payloads: without drone_id, and naming each registered drone and an
\* unregistered one.
HoldPayloads ==
    {Payload({"type"}, "HOLD", Home, <<>>, TRUE, "None")}
    \cup {Payload({"type", "drone_id"}, "HOLD", Home, <<>>, TRUE, id) :
              id \in {"D1", "D2", "D9"}}

\* Everything a caller of the runtime posts.
CallerPayloads == RuntimePayloads \cup {FarPayload} \cup HoldPayloads

NextRuntime ==
    \/ Start
    \/ Stop
    \/ LoopCheck
    \/ LoopBody
    \/ \E id \in {"D1", "D2", "D9"}, p \in CallerPayloads : RuntimeAssign(id, p)

SpecRuntime == InitRuntime /\ [][NextRuntime]_vars

\* C2: the background loop never dies of an exception, and every iteration ticks
\* every registered agent and then updates the world with their positions.
C2_LoopNeverCrashes ==
    /\ [](loop # "crashed")
    /\ [][obs'.op = "loop" =>
           /\ obs'.ticked = RuntimeDrones
           /\ wobs'.seen /\ wobs'.pos = [a \in DOMAIN drones' |-> drones'[a].pos]]_vars

\* The point a GoTo or ReturnHome task flies to.
Destination(t) == IF t.type = "GOTO" THEN t.target ELSE t.home

\* The agent's distance to the destination of the task it holds.
Remaining(d) == Vec2_norm(Vec2_sub(Destination(d.task), d.pos))

\* An iteration ticked agent a while it held a GoTo or ReturnHome task, the tick
\* returned and left the battery above the low threshold.
FliesOn(a) ==
    /\ obs'.op = "loop" /\ \E i \in DOMAIN obs'.ticked : obs'.ticked[i] = a
    /\ drones[a].task.type \in {"GOTO", "RETURN_HOME"}
    /\ drones'[a].battery > drones'[a].config.battery_low_threshold

\* C36: under the runtime every GoTo or ReturnHome task that is not replaced
\* completes while the battery stays above the low threshold, wherever its
\* target lies: each tick of such a task completes it or brings the agent
\* nearer to the target.
C36_GoToCompletes ==
    [][\A a \in DOMAIN drones :
          FliesOn(a) => \/ drones'[a].task = NoTask
                        \/ Remaining([drones'[a] EXCEPT !.task = drones[a].task])
                              < Remaining(drones[a])]_vars

\* What holds instead: the same, of targets inside the world rectangle.
GoToCompletesInsideWorld ==
    [][\A a \in DOMAIN drones :
          (FliesOn(a) /\ Destination(drones[a].task)
                           = Clamped(Destination(drones[a].task)))
          => \/ drones'[a].task = NoTask
             \/ Remaining([drones'[a] EXCEPT !.task = drones[a].task])
                   < Remaining(drones[a])]_vars

\* The step is a call of assign_task with a payload of type HOLD.
HoldAsked ==
    /\ obs'.op = "assign_task"
    /\ "type" \in obs'.payload.keys /\ obs'.payload.type = "HOLD"

\* The points a task keeps its agent at or flies it to.
TaskPoints(t) ==
    CASE t.type = "HOLD" -> {t.pos}
      [] t.type = "PATH" -> {t.waypoints[i] : i \in 1..Len(t.waypoints)}
      [] OTHER -> {}

\* The payload has no drone_id field or names a drone that is not registered.
NamesNoDrone(p) == "drone_id" \notin p.keys \/ p.drone_id \notin DOMAIN drones

\* C40: an accepted HOLD payload makes the agent of the call hold at its own
\* position with status EXECUTING, whatever drone_id the payload carries, and a
\* HOLD payload without drone_id or naming an unregistered drone fails with the
\* validation error (ValueError).
C40_HoldAtOwnPosition ==
    [][HoldAsked =>
         /\ obs'.raised = ""
            => /\ drones'[obs'.id].status = "EXECUTING"
               /\ TaskPoints(drones'[obs'.id].task) = {drones[obs'.id].pos}
         /\ NamesNoDrone(obs'.payload) => obs'.raised = "ValueError"]_vars

\* What holds instead: the agent of the call is given a looping path of two
\* waypoints at the position of the drone the payload names, with status
\* NAVIGATING; a payload naming an unregistered drone fails with KeyError when
\* the agent of the call is registered.
HoldAsBuilt ==
    [][HoldAsked =>
         /\ obs'.raised = ""
            => LET at == drones[obs'.payload.drone_id].pos
               IN  /\ drones'[obs'.id].status = "NAVIGATING"
                   /\ drones'[obs'.id].task.type = "PATH"
                   /\ drones'[obs'.id].task.waypoints = <<at, at>>
                   /\ drones'[obs'.id].task.loop
         /\ obs'.raised = "" <=> (obs'.id \in DOMAIN drones /\ ~NamesNoDrone(obs'.payload))
         /\ obs'.raised = "KeyError"
            <=> /\ obs'.id \in DOMAIN drones /\ "drone_id" \in obs'.payload.keys
                /\ obs'.payload.drone_id \notin DOMAIN drones]_vars

----------------------------------------------------------------------------
(* SpecLock: the EdgeRuntime with its threads interleaved at the steps the
   lock separates.  The background thread ("loop") runs _loop: it takes the
   lock and advances ts, ticks one drone per step, then updates the world and
   releases the lock.  Thread "A" calls assign_task, thread "B" batch_assign,
   thread "S" get_state; each `with self.lock` is an acquire step followed by
   the steps of its block. *)

\* self.lock is an RLock: a thread can take it when it is free or its own.
LockFree(t) == lock = "none" \/ lock = t

\* AssignTaskRequest
Cmd(drone_id, task) == [drone_id |-> drone_id, task |-> task]

\* The batches the caller posts: two good commands; a command for an agent that
\* is not registered, a payload of an unsupported type and a payload without
\* its required field, each before or after a good command.
BatchInputs ==
    LET goto == Payload({"type", "target"}, "GOTO", Vec2(5, 1), <<>>, TRUE, "None")
        path == Payload({"type", "waypoints", "loop"}, "PATH", Home, <<Vec2(3, 1)>>,
                        FALSE, "None")
        orbit == Payload({"type"}, "ORBIT", Home, <<>>, TRUE, "None")
        bare == Payload({"type"}, "GOTO", Home, <<>>, TRUE, "None")
    IN  {<<Cmd("D1", goto), Cmd("D2", path)>>,
         <<Cmd("D9", goto), Cmd("D2", path)>>,
         <<Cmd("D1", goto), Cmd("D2", orbit)>>,
         <<Cmd("D1", bare), Cmd("D1", path)>>}

\* Observation of a step of SpecLock: the snapshot a get_state returned, and for
\* a command of a batch the ts its assignment was made at and the ts the first
\* command of the batch was made at.
LkObs(op, raised, snap, first_ts, cmd_ts) ==
    [op |-> op, raised |-> raised, snap |-> snap, first_ts |-> first_ts, cmd_ts |-> cmd_ts]

NoSnap == [ts |-> None, drones |-> << >>, recent_events |-> <<>>]

\* A serialisation that knows GoToTask only.
_task_to_dict_goto_only(d) == IF d.task.type = "GOTO" THEN "GOTO" ELSE "NONE"

\* EdgeRuntime._task_to_dict, reduced to the "type" entry: None ("NONE") when
\* the drone has no task, else the name of the task's type.
_task_to_dict(d) == IF d.task = NoTask THEN "NONE" ELSE d.task.type

\* DroneStateModel of get_state (lines 243-249)
DroneStateModel(d) ==
    [id |-> d.id, pos |-> d.pos, status |-> d.status, battery |-> d.battery,
     task |-> _task_to_dict(d)]

\* list(self.events)[-50:]
RecentEvents(q, n) == IF Len(q) <= n THEN q ELSE SubSeq(q, Len(q) - n + 1, Len(q))

\* The locals of the threads.  loop: the index of the drone to tick next, the
\* numbers of iterations started, of tick calls made per drone and of world
\* updates made, the events the ticks of the iteration have returned, and the
\* number of iterations that had started when stop was last called.  A, B: the
\* arguments in hand and the calls made; B also the commands of its latest
\* batch and the results list built so far.  S: the drone states already read.
InitLock ==
    /\ InitRuntimeState
    /\ obs = LkObs("init", "", NoSnap, None, None)
    /\ pc = [loop |-> [i |-> 1, started |-> 0, ticks |-> [a \in {"D1", "D2"} |-> 0],
                       updates |-> 0, returned |-> <<>>, stopped_at |-> None],
             A |-> [at |-> "idle", drone_id |-> "None", task |-> << >>, calls |-> 0],
             B |-> [at |-> "idle", cmds |-> <<>>, first_ts |-> None, calls |-> 0,
                    sent |-> <<>>, results |-> <<>>],
             S |-> [at |-> "idle", drones |-> << >>]]

Calls == pc.A.calls + pc.B.calls

\* EdgeRuntime.start
LkStart ==
    /\ loop \in {"none", "exited", "crashed"}
    /\ stop_flag' = FALSE
    /\ loop' = "check"
    /\ pc' = [pc EXCEPT !.loop.stopped_at = None]
    /\ obs' = LkObs("start", "", NoSnap, None, None)
    /\ UNCHANGED <<drones, ts, dt, world_bounds, zones, drone_in_zones, last_fired,
                   events, wobs, lock>>

\* EdgeRuntime.stop
LkStop ==
    /\ ~stop_flag
    /\ stop_flag' = TRUE
    /\ pc' = [pc EXCEPT !.loop.stopped_at = pc.loop.started]
    /\ obs' = LkObs("stop", "", NoSnap, None, None)
    /\ UNCHANGED <<drones, ts, dt, world_bounds, zones, drone_in_zones, last_fired,
                   loop, events, wobs, lock>>

\* while not self._stop.is_set()
LkCheck ==
    /\ loop = "check"
    /\ loop' = IF stop_flag THEN "exited" ELSE "acquire"
    /\ obs' = LkObs("check", "", NoSnap, None, None)
    /\ UNCHANGED <<drones, ts, dt, world_bounds, zones, drone_in_zones, last_fired,
                   stop_flag, events, wobs, lock, pc>>

\* A with block that keeps the lock when its body raises.
with_exit_leak(l, raised) == IF raised # "" THEN l ELSE "none"

\* The end of `with self.lock`: the lock is released whether the block returns
\* or raises (the blocks are entered once, so the count of the RLock is 1).
with_exit(l, raised) == "none"

\* Mutant of Loop_ts: an iteration that follows a caller's assignment makes up
\* for the time the loop waited for the lock.
Loop_ts_catch_up(tsv, dtv) == IF Calls > 0 THEN tsv + 2 * dtv ELSE tsv + dtv

\* self.ts += self.dt (line 208)
Loop_ts(tsv, dtv) == tsv + dtv

\* with self.lock: self.ts += self.dt (lines 207-208)
LkBegin ==
    /\ loop = "acquire"
    /\ LockFree("loop")
    /\ ts < MaxTs
    /\ lock' = "loop"
    /\ ts' = Loop_ts(ts, dt)
    /\ loop' = "tick"
    /\ pc' = [pc EXCEPT !.loop.i = 1, !.loop.started = @ + 1, !.loop.returned = <<>>]
    /\ obs' = LkObs("loop_begin", "", NoSnap, None, None)
    /\ UNCHANGED <<drones, dt, world_bounds, zones, drone_in_zones, last_fired,
                   stop_flag, events, wobs>>

\* One pass of the for loop of lines 211-212.  An exception leaves the with
\* block, which releases the lock, and ends the thread.
LkTick ==
    /\ loop = "tick"
    /\ \E a \in {RuntimeDrones[pc.loop.i]} :
       \E r \in {Drone_tick(drones[a], dt, ts, Map2D_bounds)} :
        /\ drones' = [drones EXCEPT ![a] = r.d]
        /\ pc' = [pc EXCEPT !.loop.i = @ + 1, !.loop.ticks[a] = @ + 1,
                            !.loop.returned = @ \o r.events]
        /\ IF r.raised # "" THEN loop' = "crashed" /\ lock' = with_exit(lock, r.raised)
           ELSE /\ loop' = IF pc.loop.i = Len(RuntimeDrones) THEN "world" ELSE "tick"
                /\ lock' = lock
        /\ obs' = LkObs("loop_tick", r.raised, NoSnap, None, None)
        /\ UNCHANGED <<ts, dt, world_bounds, zones, drone_in_zones, last_fired,
                       stop_flag, events, wobs>>

\* Lines 214-229, and the end of the with block.
LkWorld ==
    /\ loop = "world"
    /\ \E positions \in {[a \in DOMAIN drones |-> drones[a].pos]} :
       \E w \in {Map2D_update(zones, drone_in_zones, last_fired, RuntimeDrones,
                              positions, ts, [pr \in DOMAIN last_fired |-> 0])} :
        /\ drone_in_zones' = w.in_zones
        /\ last_fired' = w.last_fired
        /\ events' = DequeExtend(events, [i \in 1..Len(w.events) |->
                                             EventModel(w.events[i])], EventsMaxLen)
        /\ wobs' = WObs(TRUE, positions, w.events, Refired(w.events, last_fired),
                       [pr \in DOMAIN last_fired |-> 0])
        /\ pc' = [pc EXCEPT !.loop.updates = @ + 1]
        /\ lock' = with_exit(lock, "")
        /\ loop' = "check"
        /\ obs' = LkObs("loop_world", "", NoSnap, None, None)
        /\ UNCHANGED <<drones, ts, dt, world_bounds, zones, stop_flag>>

\* EdgeRuntime.assign_task: with self.lock
AssignBegin(drone_id, p) ==
    /\ pc.A.at = "idle"
    /\ loop # "none"
    /\ Calls < MaxCalls
    /\ LockFree("A")
    /\ lock' = "A"
    /\ pc' = [pc EXCEPT !.A.at = "locked", !.A.drone_id = drone_id, !.A.task = p]
    /\ obs' = LkObs("assign_begin", "", NoSnap, None, None)
    /\ UNCHANGED <<drones, ts, dt, world_bounds, zones, drone_in_zones, last_fired,
                   loop, stop_flag, events, wobs>>

\* EdgeRuntime.assign_task: the block under the lock
AssignEnd ==
    /\ pc.A.at = "locked"
    /\ \E r \in {EdgeRuntime_assign_task(drones, pc.A.drone_id, pc.A.task, ts)} :
        /\ drones' = r.drones
        /\ lock' = with_exit(lock, r.raised)
        /\ pc' = [pc EXCEPT !.A.at = "idle", !.A.drone_id = "None", !.A.task = << >>,
                            !.A.calls = @ + 1]
        /\ obs' = LkObs("assign_task", r.raised, NoSnap, None, None)
        /\ UNCHANGED <<ts, dt, world_bounds, zones, drone_in_zones, last_fired,
                       loop, stop_flag, events, wobs>>

\* Mutant of batch_result: a command that raised leaves no result.
batch_result_skip_failed(results, c, raised) ==
    IF raised = "" THEN Append(results, [ok |-> TRUE, drone_id |-> c.drone_id])
    ELSE results

\* results.append of batch_assign (lines 282-285): the dict assign_task returned,
\* or the ok=false dict built from the exception caught.
batch_result(results, c, raised) ==
    Append(results, [ok |-> raised = "", drone_id |-> c.drone_id])

\* EdgeRuntime.batch_assign is entered: no lock is taken here (line 280).
BatchBegin(cmds) ==
    /\ pc.B.at = "idle"
    /\ loop # "none"
    /\ Calls + Len(cmds) <= MaxCalls
    /\ pc' = [pc EXCEPT !.B.at = "next", !.B.cmds = cmds, !.B.first_ts = None,
                        !.B.calls = @ + Len(cmds), !.B.sent = cmds, !.B.results = <<>>]
    /\ obs' = LkObs("batch_begin", "", NoSnap, None, None)
    /\ UNCHANGED <<drones, ts, dt, world_bounds, zones, drone_in_zones, last_fired,
                   loop, stop_flag, events, wobs, lock>>

\* The next command of the batch calls self.assign_task: with self.lock
BatchAcquire ==
    /\ pc.B.at = "next"
    /\ LockFree("B")
    /\ lock' = "B"
    /\ pc' = [pc EXCEPT !.B.at = "locked"]
    /\ obs' = LkObs("batch_acquire", "", NoSnap, None, None)
    /\ UNCHANGED <<drones, ts, dt, world_bounds, zones, drone_in_zones, last_fired,
                   loop, stop_flag, events, wobs>>

\* The block of assign_task for the command; its exception is caught by
\* batch_assign (lines 282-285), and the call returns after the last command.
BatchAssign ==
    /\ pc.B.at = "locked"
    /\ \E c \in {Head(pc.B.cmds)} :
       \E r \in {EdgeRuntime_assign_task(drones, c.drone_id, c.task, ts)} :
        /\ drones' = r.drones
        /\ lock' = with_exit(lock, r.raised)
        /\ pc' = [pc EXCEPT !.B.at = IF Len(pc.B.cmds) = 1 THEN "idle" ELSE "next",
                            !.B.cmds = Tail(@),
                            !.B.results = batch_result(@, c, r.raised),
                            !.B.first_ts = IF Len(pc.B.cmds) = 1 THEN None
                                           ELSE IF @ = None THEN ts ELSE @]
        /\ obs' = LkObs("batch_cmd", "", NoSnap,
                       IF pc.B.first_ts = None THEN ts ELSE pc.B.first_ts, ts)
        /\ UNCHANGED <<ts, dt, world_bounds, zones, drone_in_zones, last_fired,
                       loop, stop_flag, events, wobs>>

\* EdgeRuntime.get_state: with self.lock
SnapBegin ==
    /\ pc.S.at = "idle"
    /\ loop # "none"
    /\ LockFree("S")
    /\ lock' = "S"
    /\ pc' = [pc EXCEPT !.S.at = "locked"]
    /\ obs' = LkObs("snap_begin", "", NoSnap, None, None)
    /\ UNCHANGED <<drones, ts, dt, world_bounds, zones, drone_in_zones, last_fired,
                   loop, stop_flag, events, wobs>>

\* get_state reads the drones (lines 240-250)
SnapDrones ==
    /\ pc.S.at = "locked"
    /\ pc' = [pc EXCEPT !.S.at = "agents",
                        !.S.drones = [a \in DOMAIN drones |-> DroneStateModel(drones[a])]]
    /\ obs' = LkObs("snap_drones", "", NoSnap, None, None)
    /\ UNCHANGED <<drones, ts, dt, world_bounds, zones, drone_in_zones, last_fired,
                   loop, stop_flag, events, wobs, lock>>

\* get_state reads ts and the events and returns (lines 263-268)
SnapEnd ==
    /\ pc.S.at = "agents"
    /\ lock' = with_exit(lock, "")
    /\ pc' = [pc EXCEPT !.S.at = "idle", !.S.drones = << >>]
    /\ obs' = LkObs("get_state", "",
                   [ts |-> ts, drones |-> pc.S.drones,
                    recent_events |-> RecentEvents(events, SnapshotLen)], None, None)
    /\ UNCHANGED <<drones, ts, dt, world_bounds, zones, drone_in_zones, last_fired,
                   loop, stop_flag, events, wobs>>

NextLock ==
    \/ LkStart
    \/ LkStop
    \/ LkCheck
    \/ LkBegin
    \/ LkTick
    \/ LkWorld
    \/ \E id \in {"D1", "D2"}, p \in RuntimePayloads : AssignBegin(id, p)
    \/ AssignEnd
    \/ \E cmds \in BatchInputs : BatchBegin(cmds)
    \/ BatchAcquire
    \/ BatchAssign
    \/ SnapBegin
    \/ SnapDrones
    \/ SnapEnd

SpecLock == InitLock /\ [][NextLock]_vars

\* A thread that holds the lock is runnable, and the steps of its block are
\* bounded loops over the drones and the zones: each of them is taken.  The
\* first conjunct is WF_vars(LkTick) with ENABLED <<LkTick>>_vars written as
\* loop = "tick": Drone_tick is total and every LkTick step changes pc.
SpecLockFair ==
    /\ SpecLock
    /\ ([]<>(loop # "tick") \/ []<><<LkTick>>_vars)
    /\ WF_vars(LkWorld)
    /\ WF_vars(AssignEnd) /\ WF_vars(BatchAssign)
    /\ WF_vars(SnapDrones) /\ WF_vars(SnapEnd)

\* Thread t is inside a block guarded by self.lock.
InCritical(t) ==
    CASE t = "loop" -> loop \in {"tick", "world"}
      [] t = "S"    -> pc.S.at \in {"locked", "agents"}
      [] OTHER      -> pc[t].at = "locked"

\* At most one thread is inside a block guarded by the lock.
MutualExclusion == Cardinality({t \in {"loop", "A", "B", "S"} : InCritical(t)}) <= 1

\* ts, the agents and the world are as of the end of one and the same iteration:
\* every agent has been ticked, and the world updated, once per advance of ts.
AtIterationBoundary ==
    /\ \A a \in DOMAIN pc.loop.ticks : pc.loop.ticks[a] = pc.loop.started
    /\ pc.loop.updates = pc.loop.started

\* C14: the loop iteration, a task assignment and the construction of a snapshot
\* exclude each other, and whenever get_state reads, ts, the agents and the event
\* buffer are as of one and the same iteration boundary.
C14_SnapshotAtIterationBoundary ==
    /\ MutualExclusion
    /\ InCritical("S") => AtIterationBoundary

\* C15: while a batch is between its first and its last command the batch holds
\* the lock, and every command of the batch is assigned at the simulated time
\* the first one was.
C15_BatchHoldsLock ==
    /\ [](pc.B.at = "next" /\ pc.B.first_ts # None => lock = "B")
    /\ [][obs'.op = "batch_cmd" => obs'.cmd_ts = obs'.first_ts]_vars

\* C16: ts never decreases, only the loop changes it, every iteration the loop
\* starts adds exactly dt to it, and ts is dt times the number of iterations
\* started: none is skipped and none is merged with another.
C16_TsAdvancesByDt ==
    /\ [](ts = pc.loop.started * dt)
    /\ [][/\ ts' >= ts
          /\ ts' # ts => obs'.op = "loop_begin"
          /\ obs'.op = "loop_begin" => (ts' = ts + dt
                                        /\ pc'.loop.started = pc.loop.started + 1)]_vars

\* C16 witness: the third iteration has started after a caller's assignment.
C16_Witness ==
    /\ obs.op = "loop_begin"
    /\ ts = 3 * dt
    /\ pc.A.calls = 1

\* The buffer q holds an event of the type and drone of e.
Buffered(q, e) ==
    \E k \in 1..Len(q) : q[k].type = e.type /\ q[k].drone_id = e.drone_id

\* C17: when an iteration ends, the buffer holds every DroneEvent the ticks of
\* the iteration returned and every WorldEvent its world update returned.
C17_BothStreamsBuffered ==
    [][obs'.op = "loop_world" =>
          /\ \A k \in 1..Len(pc.loop.returned) : Buffered(events', pc.loop.returned[k])
          /\ \A k \in 1..Len(wobs'.events) : Buffered(events', wobs'.events[k])]_vars

\* s is the last Len(s) elements of q, in the order of q.
IsSuffix(s, q) ==
    /\ Len(s) <= Len(q)
    /\ \A k \in 1..Len(s) : s[k] = q[Len(q) - Len(s) + k]

MinOf(a, b) == IF a <= b THEN a ELSE b

\* C18: the buffer never holds more than its maximum; appending keeps the most
\* recently appended events in append order and drops the oldest; a snapshot
\* returns the last SnapshotLen events of the buffer (all of them when it holds
\* fewer), in append order.
C18_BufferBoundedSnapshotNewest ==
    /\ [](Len(events) <= EventsMaxLen)
    /\ [](obs.op = "get_state" =>
             /\ Len(obs.snap.recent_events) = MinOf(Len(events), SnapshotLen)
             /\ IsSuffix(obs.snap.recent_events, events))
    /\ [][obs'.op = "loop_world" =>
             LET all == events \o [i \in 1..Len(wobs'.events) |-> EventModel(wobs'.events[i])]
             IN  /\ Len(events') = MinOf(Len(all), EventsMaxLen)
                 /\ IsSuffix(events', all)]_vars

\* C18 witness: a snapshot is taken of a full buffer from which the first event
\* of the run (the one of the first world update) has been dropped.
C18_Witness ==
    /\ obs.op = "get_state"
    /\ Len(events) = EventsMaxLen
    /\ events[1].ts > dt
    /\ Len(obs.snap.recent_events) = SnapshotLen
    /\ obs.snap.recent_events[1] = events[EventsMaxLen - SnapshotLen + 1]

\* C19: assign_task with an id that is not registered raises the unknown-drone
\* ValueError and changes no drone, nor ts, nor the buffer; a call whose payload
\* does not parse changes no drone.
C19_FailedAssignChangesNothing ==
    [][obs'.op = "assign_task" =>
          /\ obs'.id \notin DOMAIN drones =>
                 /\ obs'.raised = "ValueError"
                 /\ UNCHANGED <<drones, ts, events>>
          /\ obs'.raised # "" => drones' = drones]_vars

\* C19 witness: a call with an unregistered id failed with ValueError after an
\* earlier call had given a drone a task, which the drone still has.
C19_Witness ==
    /\ obs.op = "assign_task"
    /\ obs.id \notin DOMAIN drones
    /\ obs.raised = "ValueError"
    /\ obs.calls = 2
    /\ \E a \in DOMAIN drones : drones[a].task # NoTask

\* C20: every assign_task call whose payload fails to parse is answered with the
\* client error 400, never with the server fault 500.
C20_ParseFailureIsClientError ==
    (obs.op = "assign_task" /\ obs.raised # "") => assign_task_status(obs.raised) = 400

\* Since stop was called, at most one iteration has started and ts has advanced
\* by at most one dt.
AtMostOneIterationAfterStop ==
    stop_flag => /\ pc.loop.started <= pc.loop.stopped_at + 1
                 /\ ts <= (pc.loop.stopped_at + 1) * dt

\* C21: after stop(), the iteration in progress runs to completion, at most one
\* further iteration starts and ts advances by at most one more dt, and the
\* check at the iteration boundary ends the loop.
C21_StopAtIterationBoundary ==
    /\ []AtMostOneIterationAfterStop
    /\ [][(stop_flag /\ loop \in {"tick", "world"}) => loop' \in {"tick", "world", "check"}]_vars
    /\ [][(stop_flag /\ loop = "check") => loop' \in {"check", "exited"}]_vars

\* The lock is held by thread t exactly while t is inside its guarded block.
LockHeldInBlockOnly ==
    \A t \in {"loop", "A", "B", "S"} : (lock = t) <=> InCritical(t)

\* C22: the lock is held only inside a guarded block, every acquisition is
\* followed by a release, also when the block fails with an error, and a caller
\* can take the lock again afterwards.
C22_LockAlwaysReleased ==
    /\ []LockHeldInBlockOnly
    /\ (lock # "none") ~> (lock = "none")

\* C22 witness: get_state has taken the lock after the loop thread died of an
\* exception inside its guarded block.
C22_Witness ==
    /\ obs.op = "snap_begin"
    /\ lock = "S"
    /\ loop = "crashed"

\* The ticks of the iteration have returned an event of the type for drone a.
Returned(p, type, a) ==
    \E k \in 1..Len(p.loop.returned) :
        p.loop.returned[k].type = type /\ p.loop.returned[k].drone_id = a

\* C23: an assignment that returns ok leaves the drone with a task of the
\* payload's type; a drone's task goes away or changes type only by completing,
\* by being replaced or by being preempted; and a snapshot reports for every
\* drone the type of the task it has, null only when it has none.
C23_SnapshotReportsAssignedTask ==
    /\ [](obs.op = "get_state" =>
             \A a \in DOMAIN drones :
                 /\ obs.snap.drones[a].task = drones[a].task.type
                 /\ obs.snap.drones[a].task = "NONE" <=> drones[a].task = NoTask)
    /\ [][/\ (obs'.op = "assign_task" /\ obs'.raised = "") =>
                 /\ pc.A.task.type \in {"GOTO", "PATH"}
                 /\ drones'[pc.A.drone_id].task.type = pc.A.task.type
          /\ (obs'.op = "batch_cmd" /\ pc'.B.results[Len(pc'.B.results)].ok) =>
                 /\ Head(pc.B.cmds).task.type \in {"GOTO", "PATH"}
                 /\ drones'[Head(pc.B.cmds).drone_id].task.type = Head(pc.B.cmds).task.type
          /\ \A a \in DOMAIN drones :
                 (drones[a].task # NoTask /\ drones'[a].task.type # drones[a].task.type) =>
                     \/ obs'.op \in {"assign_task", "batch_cmd"}
                     \/ obs'.op = "loop_tick" /\ Returned(pc', "TASK_COMPLETED", a)
                     \/ obs'.op = "loop_tick" /\ Returned(pc', "BATTERY_LOW", a)]_vars

\* C23 witness: a snapshot reports D1 under way with the GOTO task it was given.
C23_Witness ==
    /\ obs.op = "get_state"
    /\ pc.A.calls + pc.B.calls > 0
    /\ obs.snap.drones["D1"].task = "GOTO"
    /\ obs.snap.drones["D1"].pos # Home
    /\ obs.snap.ts > 0


----------------------------------------------------------------------------
(* World.update: failed gates and the order of the returned events *)

\* The call of produce_events for zone z and agent a returns at one of its
\* gates: ON_ENTER while not entering, ON_STAY inside the cooldown, or a draw
\* above the probability.
GateFails(z, a, pos, tsv, draw) ==
    /\ Zone_contains(z, pos)
    /\ \/ z.policy.trigger_mode = "ON_ENTER" /\ z.id \in drone_in_zones[a]
       \/ /\ z.policy.trigger_mode = "ON_STAY"
          /\ last_fired[<<a, z.id>>] # None
          /\ tsv - last_fired[<<a, z.id>>] < z.policy.cooldown_s
       \/ draw > z.policy.probability

\* C29: when a gate of produce_events fails the call returns no events and the
\* last_fired_ts it was given, and the update returns no event for the pair and
\* leaves its recorded last-fired timestamp as it was; an update changes the
\* last-fired timestamp only of pairs for which it returned an event.
C29_FailedGateChangesNothing ==
    [][UpdateStep =>
       \A a \in DOMAIN wobs'.pos : \A j \in 1..Len(zones) :
          LET z  == zones[j]
              pr == <<a, z.id>>
          IN  /\ GateFails(z, a, wobs'.pos[a], ts', wobs'.draw[pr])
                 => /\ Zone_produce_events(z, a, wobs'.pos[a], ts',
                                           z.id \notin drone_in_zones[a],
                                           last_fired[pr], wobs'.draw[pr])
                       = [events |-> <<>>, new_last |-> last_fired[pr]]
                    /\ PairEvents(wobs'.events, a, z.id) = 0
                    /\ last_fired'[pr] = last_fired[pr]
              /\ last_fired'[pr] # last_fired[pr]
                 => PairEvents(wobs'.events, a, z.id) = 1]_vars

\* C29 witness: a pair of z2 that fired at an earlier update has reached the
\* stochastic gate again, drawn above the probability, returned no event and
\* kept the earlier timestamp.
C29_Witness ==
    /\ wobs.seen
    /\ \E a \in DOMAIN wobs.pos :
          /\ Zone_contains(zones[2], wobs.pos[a])
          /\ wobs.draw[<<a, "z2">>] > zones[2].policy.probability
          /\ PairEvents(wobs.events, a, "z2") = 0
          /\ last_fired[<<a, "z2">>] # None
          /\ last_fired[<<a, "z2">>] < ts

\* The place of agent a in the iteration order and of zone zid in the
\* registration order.
AgentPlace(order, a) == CHOOSE i \in 1..Len(order) : order[i] = a
ZonePlace(zs, zid) == CHOOSE j \in 1..Len(zs) : zs[j].id = zid

\* C30: the events one update returns are in the iteration order of the agents
\* and, for one agent, in the registration order of the zones, strictly: at most
\* one event per (agent, zone) pair; each event is of a zone that contains the
\* position the agent was reported at.
C30_EventOrder ==
    wobs.seen =>
        \A i \in 1..Len(wobs.events) :
            LET e == wobs.events[i]
            IN  /\ Zone_contains(zones[ZonePlace(zones, e.zone_id)], wobs.pos[e.drone_id])
                /\ \A k \in (i + 1)..Len(wobs.events) :
                      LET f == wobs.events[k]
                      IN  \/ AgentPlace(wobs.order, e.drone_id) < AgentPlace(wobs.order, f.drone_id)
                          \/ /\ e.drone_id = f.drone_id
                             /\ ZonePlace(zones, e.zone_id) < ZonePlace(zones, f.zone_id)

\* C30 witness: with D2 before D1 in the positions map and both agents inside
\* both zones, an update has returned four events.
C30_Witness ==
    /\ wobs.seen
    /\ wobs.order = <<"D2", "D1">>
    /\ Len(wobs.events) = 4


----------------------------------------------------------------------------
(* drone/fire_drone.py *)

\* fire_pos = None
NoFire == [none |-> TRUE]

\* FirefightingConfig: the DroneConfig fields and the four payload fields.
FirefightingConfig(base, agent_capacity, agent_use_per_s, suppress_range_m, refill_at_home) ==
    base @@ [agent_capacity |-> agent_capacity, agent_use_per_s |-> agent_use_per_s,
             suppress_range_m |-> suppress_range_m, refill_at_home |-> refill_at_home]

\* FirefightingDrone(...): __post_init__ sets agent_left to the capacity.
FirefightingDrone(id, pos, home, config, status, battery0) ==
    Drone(id, pos, home, config, status, battery0)
    @@ [agent_left |-> config.agent_capacity, suppressing |-> FALSE, fire_pos |-> NoFire]

\* The events the overlay appends: HEARTBEAT events told apart by their message.
FireEvent(message, d) ==
    DroneEvent("HEARTBEAT", d.id, d.status, TaskIdOf(d)) @@ [message |-> message]

FirefightingDrone_start_suppress_fire(d, fire_pos, tsv) ==
    LET d1 == [d EXCEPT !.fire_pos = fire_pos, !.suppressing = TRUE]
        r  == Drone_assign_task(d1, GoToTask("goto-fire", fire_pos, 1), tsv)
    IN  [d |-> r.d,
         events |-> r.events \o
                    <<DroneEvent("TASK_ASSIGNED", d.id, r.d.status, TaskIdOf(r.d))>>]

FirefightingDrone_stop_suppress_fire(d, tsv) ==
    LET d1 == [d EXCEPT !.suppressing = FALSE, !.fire_pos = NoFire]
    IN  [d |-> d1,
         events |-> <<DroneEvent("STATUS_CHANGED", d.id, d1.status, TaskIdOf(d1))>>]

\* Mutant of fire_refill: the payload is topped up whenever refill is enabled.
fire_refill_anywhere(d) ==
    IF d.config.refill_at_home /\ d.agent_left < d.config.agent_capacity
    THEN LET d1 == [d EXCEPT !.agent_left = d.config.agent_capacity]
         IN  [d |-> d1, events |-> <<FireEvent("refilled", d1)>>]
    ELSE [d |-> d, events |-> <<>>]

\* The refill of tick (lines 77-88); the distance <= 1e-6 is distance 0.
fire_refill(d) ==
    IF /\ d.config.refill_at_home
       /\ Vec2_norm(Vec2_sub(d.pos, d.home)) <= 0
       /\ d.agent_left < d.config.agent_capacity
    THEN LET d1 == [d EXCEPT !.agent_left = d.config.agent_capacity]
         IN  [d |-> d1, events |-> <<FireEvent("refilled", d1)>>]
    ELSE [d |-> d, events |-> <<>>]

\* Mutant of fire_hold: the Hold is assigned only to an IDLE agent.
fire_hold_idle_only(d, tsv) ==
    IF d.status = "IDLE"
    THEN LET r == Drone_assign_task(d, HoldTask("hold-fire", d.pos, None, 1), tsv)
         IN  [d |-> r.d, events |-> r.events \o <<FireEvent("started", r.d)>>]
    ELSE [d |-> d, events |-> <<>>]

\* The self-assigned Hold of tick (lines 94-112).
fire_hold(d, tsv) ==
    IF d.task = NoTask \/ d.status = "IDLE"
    THEN LET r == Drone_assign_task(d, HoldTask("hold-fire", d.pos, None, 1), tsv)
         IN  [d |-> r.d, events |-> r.events \o <<FireEvent("started", r.d)>>]
    ELSE [d |-> d, events |-> <<>>]

\* Mutant of fire_use: the payload is not clamped to what is left.
fire_use_unclamped(d, dtv) ==
    IF d.agent_left > 0
    THEN LET left == d.agent_left - d.config.agent_use_per_s * dtv
             d1   == [d EXCEPT !.agent_left = left]
         IN  IF left <= 0
             THEN LET d2 == [d1 EXCEPT !.suppressing = FALSE]
                  IN  [d |-> d2, events |-> <<FireEvent("suppressing", d1), FireEvent("empty", d2)>>]
             ELSE [d |-> d1, events |-> <<FireEvent("suppressing", d1)>>]
    ELSE [d |-> d, events |-> <<>>]

\* The consumption of tick (lines 114-139); agent_left <= 1e-9 is agent_left <= 0.
fire_use(d, dtv) ==
    IF d.agent_left > 0
    THEN LET used == Min(d.agent_left, d.config.agent_use_per_s * dtv)
             d1   == [d EXCEPT !.agent_left = d.agent_left - used]
         IN  IF d1.agent_left <= 0
             THEN LET d2 == [d1 EXCEPT !.agent_left = 0, !.suppressing = FALSE]
                  IN  [d |-> d2, events |-> <<FireEvent("suppressing", d1), FireEvent("empty", d2)>>]
             ELSE [d |-> d1, events |-> <<FireEvent("suppressing", d1)>>]
    ELSE [d |-> d, events |-> <<>>]

\* The suppression of tick (lines 90-139).
fire_suppress(d, dtv, tsv) ==
    IF d.suppressing /\ d.fire_pos # NoFire
       /\ Vec2_norm(Vec2_sub(d.fire_pos, d.pos)) <= d.config.suppress_range_m
    THEN LET h == fire_hold(d, tsv)
             u == fire_use(h.d, dtv)
         IN  [d |-> u.d, events |-> h.events \o u.events]
    ELSE [d |-> d, events |-> <<>>]

\* FirefightingDrone.tick: an exception of super().tick() leaves the overlay
\* undone; an inert agent, for which super().tick() returns at once, still
\* runs it.
FirefightingDrone_tick(d, dtv, tsv, bounds) ==
    LET r == Drone_tick(d, dtv, tsv, bounds)
    IN  IF r.raised # "" THEN r
        ELSE LET rf == fire_refill(r.d)
                 sp == fire_suppress(rf.d, dtv, tsv)
             IN  [d |-> sp.d, events |-> r.events \o rf.events \o sp.events, raised |-> ""]

----------------------------------------------------------------------------
(* SpecFire: one FirefightingDrone driven by a caller that starts and stops
   suppression, assigns tasks and ticks it with a clock advancing by dt *)

\* No tick of the firefighting agent is started at ts >= MaxFireTs.
MaxFireTs == 7

\* Where a fire is reported: at the agent's home, next to it, and further away.
FirePoints == {Home, Vec2(2, 1), Vec2(4, 1)}

\* The configurations: a battery that drains and one that does not, a payload of
\* three units used at zero, one or two units per second, refill on and off.
FireConfigs ==
    {FirefightingConfig(DroneConfig(1, DefaultBattery, drain, 1, 2), 3, use, 1, refill) :
        drain \in {0, 1}, use \in {0, 1, 2}, refill \in BOOLEAN}

\* Tasks a caller gives the firefighting agent.
FireTaskInputs == {GoToTask("t1", Vec2(4, 1), 1), ReturnHomeTask("t2", Home, 1)}

InitFire ==
    /\ \E cfg \in FireConfigs :
           drones = [id \in {"D1"} |->
                        FirefightingDrone(id, Home, Home, cfg, "IDLE", DefaultBattery)]
    /\ ts = 0
    /\ dt \in {1, 2}
    /\ world_bounds = Map2D_bounds
    /\ InitWorldOff
    /\ obs = Obs("init", "D1", [events |-> <<>>], "", NoTask, 0, NoGoTo)

FireStart(id, fire_pos) ==
    \E r \in {FirefightingDrone_start_suppress_fire(drones[id], fire_pos, ts)} :
        /\ drones' = [drones EXCEPT ![id] = r.d]
        /\ obs' = Obs("start_suppress_fire", id, r, "", r.d.task, 0, NoGoTo)
        /\ UNCHANGED <<lock, pc, ts, dt, world_bounds, zones, drone_in_zones, last_fired,
                       loop, stop_flag, events, wobs>>

FireStop(id) ==
    /\ drones[id].suppressing
    /\ \E r \in {FirefightingDrone_stop_suppress_fire(drones[id], ts)} :
        /\ drones' = [drones EXCEPT ![id] = r.d]
        /\ obs' = Obs("stop_suppress_fire", id, r, "", NoTask, 0, NoGoTo)
        /\ UNCHANGED <<lock, pc, ts, dt, world_bounds, zones, drone_in_zones, last_fired,
                       loop, stop_flag, events, wobs>>

FireAssign(id, task) ==
    \E r \in {Drone_assign_task(drones[id], task, ts)} :
        /\ drones' = [drones EXCEPT ![id] = r.d]
        /\ obs' = Obs("assign_task", id, r, "", task, 0, NoGoTo)
        /\ UNCHANGED <<lock, pc, ts, dt, world_bounds, zones, drone_in_zones, last_fired,
                       loop, stop_flag, events, wobs>>

FireSetOffline(id) ==
    /\ drones[id].status # "OFFLINE"
    /\ \E r \in {Drone_set_offline(drones[id], ts)} :
        /\ drones' = [drones EXCEPT ![id] = r.d]
        /\ obs' = Obs("set_offline", id, r, "", NoTask, 0, NoGoTo)
        /\ UNCHANGED <<lock, pc, ts, dt, world_bounds, zones, drone_in_zones, last_fired,
                       loop, stop_flag, events, wobs>>

FireTick(id) ==
    /\ ts < MaxFireTs
    /\ \E r \in {FirefightingDrone_tick(drones[id], dt, ts + dt, world_bounds)} :
        /\ ts' = ts + dt
        /\ drones' = [drones EXCEPT ![id] = r.d]
        /\ obs' = Obs("tick", id, r, r.raised, NoTask, 0, NoGoTo)
        /\ UNCHANGED <<lock, pc, dt, world_bounds, zones, drone_in_zones, last_fired,
                       loop, stop_flag, events, wobs>>

NextFire ==
    \/ \E id \in DOMAIN drones, p \in FirePoints : FireStart(id, p)
    \/ \E id \in DOMAIN drones : FireStop(id)
    \/ \E id \in DOMAIN drones, task \in FireTaskInputs : FireAssign(id, task)
    \/ \E id \in DOMAIN drones : FireSetOffline(id)
    \/ \E id \in DOMAIN drones : FireTick(id)

SpecFire == InitFire /\ [][NextFire]_vars


----------------------------------------------------------------------------
(* Properties of the firefighting agent, checked under SpecFire *)

PayloadInRange ==
    \A id \in DOMAIN drones :
        0 <= drones[id].agent_left /\ drones[id].agent_left <= drones[id].config.agent_capacity

\* The tick of agent id ends within suppress_range of the fire it is suppressing.
SuppressingInRange(id) ==
    /\ TickOf(id)
    /\ drones[id].suppressing /\ drones[id].fire_pos # NoFire
    /\ Vec2_norm(Vec2_sub(drones[id].fire_pos, drones'[id].pos))
          <= drones[id].config.suppress_range_m

\* The tick of agent id ends exactly at home with refill enabled.
RefillDue(id) ==
    /\ TickOf(id)
    /\ drones[id].config.refill_at_home
    /\ drones'[id].pos = drones[id].home

\* The payload the consumption of the tick finds: the capacity after a refill.
PayloadAtUse(id) ==
    IF RefillDue(id) THEN drones[id].config.agent_capacity ELSE drones[id].agent_left

\* What a tick does to the payload of agent id; Returns tells which ticks the
\* statement is about.
PayloadStep(id, Returns) ==
    /\ (SuppressingInRange(id) /\ PayloadAtUse(id) > 0 /\ Returns)
       => /\ drones'[id].agent_left =
                PayloadAtUse(id) - Min(PayloadAtUse(id), drones[id].config.agent_use_per_s * dt)
          /\ drones'[id].agent_left = 0 => ~drones'[id].suppressing
    /\ (RefillDue(id) /\ ~SuppressingInRange(id) /\ Returns)
       => drones'[id].agent_left = drones[id].config.agent_capacity
    /\ drones'[id].agent_left > drones[id].agent_left => RefillDue(id)
    /\ drones'[id].agent_left < drones[id].agent_left => SuppressingInRange(id)

\* C31: 0 <= payload_left <= capacity in every reachable state; a suppressing
\* tick within suppress_range with payload left consumes
\* min(payload_left, use_rate * dt), and the tick on which the payload reaches
\* zero clears the suppressing flag; the payload is set to the capacity only on
\* a tick that ends with the position exactly at home and refill enabled.
C31_PayloadBoundedAndConsumed ==
    /\ []PayloadInRange
    /\ [][\A id \in DOMAIN drones : PayloadStep(id, TRUE)]_vars

\* What holds of the ticks that return.
PayloadOfReturningTicks ==
    /\ []PayloadInRange
    /\ [][\A id \in DOMAIN drones : PayloadStep(id, obs'.raised = "")]_vars


\* The step is a call of start_suppress_fire on agent id.
FireStartOf(id) == obs'.op = "start_suppress_fire" /\ obs'.id = id

\* The agent as super().tick() leaves it on a tick that returns, and as it
\* found it on a tick that raises.
AfterBaseTick(id) ==
    IF obs'.raised = "" THEN Drone_tick(drones[id], dt, ts', world_bounds).d ELSE drones[id]

\* What start_suppress_fire and the ticks after it do; Returns tells which ticks
\* the statement is about.
SuppressStep(id, Returns) ==
    /\ FireStartOf(id)
       => /\ drones'[id].task.type = "GOTO"
          /\ drones'[id].task.target = drones'[id].fire_pos
          /\ drones'[id].fire_pos \in FirePoints
          /\ drones'[id].suppressing
    /\ (/\ SuppressingInRange(id) /\ Returns
        /\ (AfterBaseTick(id).task = NoTask \/ AfterBaseTick(id).status = "IDLE"))
       => /\ drones'[id].task.type = "HOLD"
          /\ drones'[id].task.duration_s = None
          /\ drones'[id].task.pos = drones'[id].pos
          /\ drones'[id].status = "EXECUTING"
    /\ (TickOf(id) /\ ~SuppressingInRange(id))
       => drones'[id].agent_left >= drones[id].agent_left

\* C32: start_suppress_fire always replaces the task with a GoTo to the fire
\* position and sets the suppressing flag; a tick that ends within
\* suppress_range of the fire while suppressing, with no task or status IDLE,
\* leaves the agent with a Hold task of null duration at its position and
\* status EXECUTING; a tick that ends outside suppress_range consumes no payload.
C32_SuppressGoToThenHold ==
    [][\A id \in DOMAIN drones : SuppressStep(id, TRUE)]_vars

\* What holds of the ticks that return.
SuppressOfReturningTicks ==
    [][\A id \in DOMAIN drones : SuppressStep(id, obs'.raised = "")]_vars


\* C32 witness: the tick that completed the GoTo to a fire away from home has
\* left the agent holding there, EXECUTING and still suppressing.
C32_Witness ==
    /\ obs.op = "tick" /\ obs.raised = ""
    /\ \E i \in 1..Len(obs.events) :
          obs.events[i].type = "TASK_COMPLETED" /\ obs.events[i].task_id = "goto-fire"
    /\ drones[obs.id].task.id = "hold-fire"
    /\ drones[obs.id].status = "EXECUTING"
    /\ drones[obs.id].suppressing
    /\ drones[obs.id].pos = Vec2(4, 1)


\* The tick of agent id starts and ends within suppress_range of the fire the
\* agent is suppressing, with a positive use_rate * dt.
SuppressingStays(id) ==
    /\ SuppressingInRange(id)
    /\ Vec2_norm(Vec2_sub(drones[id].fire_pos, drones[id].pos))
          <= drones[id].config.suppress_range_m
    /\ drones[id].config.agent_use_per_s * dt > 0

\* C39: every tick of an agent that is suppressing within suppress_range and
\* stays there with use_rate * dt > 0 strictly decreases the payload, and the
\* tick that takes it to zero clears the suppressing flag, so suppression stops
\* after finitely many ticks; also with the fire at the agent's home and refill
\* enabled.
C39_PayloadStrictlyDecreases ==
    [][\A id \in DOMAIN drones :
         SuppressingStays(id)
         => /\ drones'[id].agent_left < drones[id].agent_left
            /\ drones'[id].agent_left = 0 => ~drones'[id].suppressing]_vars

\* What holds: the same of the ticks that return, start with payload left and
\* do not end at home with refill enabled.
PayloadDecreasesAwayFromHome ==
    [][\A id \in DOMAIN drones :
         (SuppressingStays(id) /\ obs'.raised = ""
          /\ drones[id].agent_left > 0 /\ ~RefillDue(id))
         => /\ drones'[id].agent_left < drones[id].agent_left
            /\ drones'[id].agent_left = 0 => ~drones'[id].suppressing]_vars


----------------------------------------------------------------------------
(* batch_assign, checked under SpecLock *)

\* The payload parses: a GOTO with a target or a PATH with waypoints.
Parses(p) ==
    /\ "type" \in p.keys
    /\ \/ p.type = "GOTO" /\ "target" \in p.keys
       \/ p.type = "PATH" /\ "waypoints" \in p.keys

\* The command names a registered agent and its payload parses.
CmdGood(c) == c.drone_id \in DOMAIN drones /\ Parses(c.task)

\* The results built so far answer the commands handled so far, in their order.
BatchResultsInOrder ==
    /\ Len(pc.B.results) + Len(pc.B.cmds) = Len(pc.B.sent)
    /\ \A k \in 1..Len(pc.B.results) :
          /\ pc.B.results[k].drone_id = pc.B.sent[k].drone_id
          /\ pc.B.results[k].ok <=> CmdGood(pc.B.sent[k])
    /\ pc.B.at = "idle" => Len(pc.B.results) = Len(pc.B.sent)

\* C33: batch_assign returns one result per command, in command order; a
\* command that fails (unregistered agent, payload that does not parse) gets an
\* ok=false result and changes nothing, a command that succeeds gives its agent
\* the task whatever failed before it, and the batch goes on to the next command.
C33_BatchResultPerCommand ==
    /\ []BatchResultsInOrder
    /\ [][obs'.op = "batch_cmd" =>
            LET c == Head(pc.B.cmds)
            IN  /\ UNCHANGED <<ts, events, last_fired, drone_in_zones>>
                /\ IF CmdGood(c)
                   THEN /\ drones'[c.drone_id].task.type = c.task.type
                        /\ \A a \in DOMAIN drones \ {c.drone_id} : drones'[a] = drones[a]
                   ELSE drones' = drones
                /\ pc'.B.at = IF Len(pc.B.cmds) > 1 THEN "next" ELSE "idle"]_vars

\* C33 witness: a batch has returned whose first command failed and whose
\* second command gave D2 its task; and one whose second command failed.
C33_Witness ==
    /\ obs.op = "batch_cmd" /\ pc.B.at = "idle"
    /\ Len(pc.B.results) = 2
    /\ ~pc.B.results[1].ok /\ pc.B.results[2].ok
    /\ pc.B.sent[1].drone_id = "D9"
    /\ drones["D2"].task.type = "PATH"


----------------------------------------------------------------------------
(* SpecLife: start() and stop() called by two concurrent callers.  loop is the
   sequence of the Thread objects start() has created, each "new" (created, not
   started), "check" (at the while test), "body" (about to run an iteration),
   "exited" or "crashed"; pc holds each caller's position inside start(), the
   index of the thread self._thread refers to (0: None), the number of calls
   made, the callers whose start() a stop() has overlapped, and the lifecycle
   call that returned last, a start() counted only when no stop() ran during it *)

\* The callers make at most MaxLifeCalls start() and stop() calls in a run.
MaxLifeCalls == 4

LifeCallers == {"P", "Q"}

\* Thread.is_alive(): started and not yet ended.
IsAlive(state) == state \in {"check", "body"}

\* The threads that run _loop.
LiveLoops == {t \in 1..Len(loop) : IsAlive(loop[t])}

LifeObs(op, who, raised) ==
    [op |-> op, id |-> who, events |-> <<>>, raised |-> raised]

InitLife ==
    /\ drones = [id \in {"D1", "D2"} |->
                    Drone(id, IF id = "D1" THEN Home ELSE Vec2(5, 1),
                          IF id = "D1" THEN Home ELSE Vec2(5, 1),
                          DroneConfig(1, DefaultBattery, 1, 1, 2), "IDLE", DefaultBattery)]
    /\ ts = 0
    /\ dt = 1
    /\ world_bounds = Map2D_bounds
    /\ zones = RuntimeZones
    /\ drone_in_zones = [a \in {"D1", "D2"} |-> {}]
    /\ last_fired = [pr \in {"D1", "D2"} \X ZoneIds(RuntimeZones) |-> None]
    /\ loop = <<>>
    /\ stop_flag = FALSE
    /\ events = <<>>
    /\ wobs = WObs(FALSE, << >>, <<>>, FALSE, << >>)
    /\ lock = "none"
    /\ obs = LifeObs("init", "None", "")
    /\ pc = [P |-> "idle", Q |-> "idle", thread |-> 0, last |-> "none", calls |-> 0,
             overlap |-> {}]

\* start(), line 194: if self._thread and self._thread.is_alive(): return
LifeStartCheck(c) ==
    /\ pc[c] = "idle"
    /\ pc.calls < MaxLifeCalls
    /\ IF pc.thread # 0 /\ IsAlive(loop[pc.thread])
       THEN pc' = [pc EXCEPT !.last = "start", !.calls = @ + 1]
       ELSE pc' = [pc EXCEPT ![c] = "clear", !.calls = @ + 1]
    /\ obs' = LifeObs("start_check", c, "")
    /\ UNCHANGED <<drones, ts, dt, world_bounds, zones, drone_in_zones, last_fired,
                   loop, stop_flag, events, wobs, lock>>

\* start(), line 196: self._stop.clear()
LifeStartClear(c) ==
    /\ pc[c] = "clear"
    /\ stop_flag' = FALSE
    /\ pc' = [pc EXCEPT ![c] = "create"]
    /\ obs' = LifeObs("start_clear", c, "")
    /\ UNCHANGED <<drones, ts, dt, world_bounds, zones, drone_in_zones, last_fired,
                   loop, events, wobs, lock>>

\* start(), line 197: self._thread = threading.Thread(target=self._loop, ...)
LifeStartCreate(c) ==
    /\ pc[c] = "create"
    /\ loop' = Append(loop, "new")
    /\ pc' = [pc EXCEPT ![c] = "launch", !.thread = Len(loop) + 1]
    /\ obs' = LifeObs("start_create", c, "")
    /\ UNCHANGED <<drones, ts, dt, world_bounds, zones, drone_in_zones, last_fired,
                   stop_flag, events, wobs, lock>>

\* start(), line 198: self._thread.start(), on the thread the attribute refers
\* to now; Thread.start() raises RuntimeError on a thread started before.
LifeStartLaunch(c) ==
    /\ pc[c] = "launch"
    /\ IF loop[pc.thread] = "new"
       THEN /\ loop' = [loop EXCEPT ![pc.thread] = "check"]
            /\ pc' = [pc EXCEPT ![c] = "idle", !.overlap = @ \ {c},
                                !.last = IF c \in pc.overlap THEN @ ELSE "start"]
            /\ obs' = LifeObs("start", c, "")
       ELSE /\ loop' = loop
            /\ pc' = [pc EXCEPT ![c] = "idle", !.overlap = @ \ {c}]
            /\ obs' = LifeObs("start", c, "RuntimeError")
    /\ UNCHANGED <<drones, ts, dt, world_bounds, zones, drone_in_zones, last_fired,
                   stop_flag, events, wobs, lock>>

\* stop(): self._stop.set()
LifeStop(c) ==
    /\ pc[c] = "idle"
    /\ pc.calls < MaxLifeCalls
    /\ stop_flag' = TRUE
    /\ pc' = [pc EXCEPT !.last = "stop", !.calls = @ + 1,
                        !.overlap = {d \in LifeCallers : pc[d] # "idle"}]
    /\ obs' = LifeObs("stop", c, "")
    /\ UNCHANGED <<drones, ts, dt, world_bounds, zones, drone_in_zones, last_fired,
                   loop, events, wobs, lock>>

\* Thread t: while not self._stop.is_set()
LifeCheck(t) ==
    /\ loop[t] = "check"
    /\ loop' = [loop EXCEPT ![t] = IF stop_flag THEN "exited" ELSE "body"]
    /\ obs' = LifeObs("check", "None", "")
    /\ UNCHANGED <<drones, ts, dt, world_bounds, zones, drone_in_zones, last_fired,
                   stop_flag, events, wobs, lock, pc>>

\* Thread t: one iteration body (lines 206-234), run under the lock.
LifeBody(t) ==
    \E tk \in {tick_drones(drones, RuntimeDrones, dt, ts + dt)} :
    \E positions \in {[a \in DOMAIN tk.drones |-> tk.drones[a].pos]} :
    \E w \in {Map2D_update(zones, drone_in_zones, last_fired, RuntimeDrones,
                           positions, ts + dt, [pr \in DOMAIN last_fired |-> 0])} :
        /\ loop[t] = "body"
        /\ ts < MaxTs
        /\ ts' = Loop_ts(ts, dt)
        /\ drones' = tk.drones
        /\ IF tk.raised # ""
           THEN /\ loop' = [loop EXCEPT ![t] = "crashed"]
                /\ UNCHANGED <<drone_in_zones, last_fired, events, wobs>>
           ELSE /\ loop' = [loop EXCEPT ![t] = "check"]
                /\ drone_in_zones' = w.in_zones
                /\ last_fired' = w.last_fired
                /\ events' = DequeExtend(events, [i \in 1..Len(w.events) |->
                                                     EventModel(w.events[i])],
                                      EventsMaxLen)
                /\ wobs' = WObs(TRUE, positions, w.events, Refired(w.events, last_fired),
                               [pr \in DOMAIN last_fired |-> 0])
        /\ obs' = LifeObs("loop", "None", tk.raised)
        /\ UNCHANGED <<lock, pc, dt, world_bounds, zones, stop_flag>>

NextLife ==
    \/ \E c \in LifeCallers : LifeStartCheck(c)
    \/ \E c \in LifeCallers : LifeStartClear(c)
    \/ \E c \in LifeCallers : LifeStartCreate(c)
    \/ \E c \in LifeCallers : LifeStartLaunch(c)
    \/ \E c \in LifeCallers : LifeStop(c)
    \/ \E t \in 1..Len(loop) : LifeCheck(t)
    \/ \E t \in 1..Len(loop) : LifeBody(t)

SpecLife == InitLife /\ [][NextLife]_vars

\* C34: at most one background loop is alive at any time, whatever start() and
\* stop() calls concurrent callers make; so ts is advanced by one loop only.
C34_AtMostOneLoop == Cardinality(LiveLoops) <= 1

\* C35: whenever the lifecycle call that returned last is a start() that no
\* stop() overlapped, and no call is under way, a background loop is alive: a
\* thread is created by start() only, so with none alive none ever runs and ts
\* stays where it is.
C35_StartNotLost ==
    (pc.last = "start" /\ \A c \in LifeCallers : pc[c] = "idle") => LiveLoops # {}

====
